---- MODULE Spec2Model ----
(***************************************************************************)
(* Cosmic Color Lab (ylc3000/galaxy): the event bus, the galaxy layer's    *)
(* Big Bang phase machine and its points, the particle layer, the color    *)
(* cube's growth, the colour conversions, and the application controller's *)
(* deferred cube growth and its persisted palette, as state machines.      *)
(*                                                                         *)
(* Specifications:                                                         *)
(*   SpecBus      EventBus under any on/off/emit/clear calls, with         *)
(*                handlers that call back into the bus while dispatched.   *)
(*   SpecGalaxy   a GalaxyLayer whose startBigBang, animate, onClick and   *)
(*                onMouseMove are called in any order as time passes.      *)
(*   SpecBlend    the blend fraction of the formation, as a function of    *)
(*                the elapsed time.                                        *)
(*   SpecPalette  loadPalette and addToPalette over the browser's storage, *)
(*                whose writes may throw.                                  *)
(*   SpecApp      CosmicLabApp from its construction on: init, frames,     *)
(*                timers, pointer, clicks, keys and dispose.               *)
(*   SpecAnalyze  CosmicLabApp with its modal opened and closed repeatedly *)
(*                and with the interval that samples the galaxy's colours. *)
(*   SpecCloud    a GalaxyLayer with the attributes of its points, under   *)
(*                the same calls as the seconds pass.                      *)
(*   SpecParticles  a ParticleLayer whose setMode, onMouseMove, animate,   *)
(*                resize, colour updates and dispose come in any order.    *)
(*   SpecGrowth   the eased scale of a growing cube, as a function of the  *)
(*                elapsed time.                                            *)
(*   SpecConversion  rgbToHsl followed by hslToRgb, as functions.          *)
(*   SpecCube     a ColorCube that is shown and hidden while its frames    *)
(*                run; SpecCubeFair adds that a pending frame is drawn and *)
(*                that time passes.                                        *)
(***************************************************************************)
EXTENDS Integers, Sequences, FiniteSets, Bags, TLC

VARIABLES
    \* ---- EventBus (utils.js) ----
    events,     \* this.events: own property name -> array reference, or Undefined
    heap,       \* the array objects this.events refers to: reference -> <<callbacks>>
    stack,      \* the running Array.prototype.forEach calls of emit, innermost last
    thrown,     \* "no", or the bus method whose last call ended in an uncaught TypeError
    registry,   \* history: per event, the callbacks subscribed and not unsubscribed, in on() order
    cleared,    \* history: clear() was called and no on() has registered since
    offActed,   \* history: the latest bus call was an off() that removed a subscription
    \* ---- the environment: clock and one-shot timers ----
    now,        \* Date.now(), in tenths of a second
    timers,     \* the pending setTimeout callbacks: a bag of [kind, due]
    \* ---- GalaxyLayer (galaxy-layer.js) ----
    bigBangState,       \* this.bigBangState
    bigBangStartTime,   \* this.bigBangStartTime
    bloomStrength,      \* this.config.bloomStrength, in tenths
    targetMouse,        \* this.targetMouse, <<x, y>>
    published,          \* history: how often 'galaxy:bigBangComplete' was emitted
    completions,        \* history: how often the phase changed to complete
    \* ---- the blend fraction as a function (GalaxyLayer.animate) ----
    blendIn,    \* two elapsed times, in tenths of a second
    blendOut,   \* <<>>, or formationProgress of the two
    \* ---- the palette (app-controller.js) and the browser's storage ----
    palette,        \* this.appState.palette
    localStorage,   \* the keys that are set, each with its text
    appInit,        \* where init() is: "new", "loaded", or "failed" when it threw
    adds,           \* history: the number of addToPalette calls
    unsaved,        \* history: the latest write of the palette to the storage threw
    \* ---- CosmicLabApp (app-controller.js) and its background ColorCube ----
    subs,           \* the application's bus: the handlers subscribed to each event
    frameChain,     \* the pending requestAnimationFrame callbacks of the controller
    disposed,       \* dispose() was called
    layersDisposed, \* history: the layers whose dispose() was called
    lastFrame,      \* history: what the controller's latest frame called, in order
    cubeBackground, \* this.colorCubeBackground
    colorCube,      \* this.colorCube, the cube of the modal
    mode,           \* this.appState.mode
    selectedColors, \* this.appState.selectedColors
    clicks,         \* history: the number of clicks on the galaxy
    receivedAt,     \* history: when each 'galaxy:bigBangComplete' reached the controller
    growthStarts,   \* history: the number of startColorCubeGrowth calls
    lateStarts,     \* history: the number of them after dispose()
    sampling,       \* the interval of sampleGalaxyColors() and what its callbacks did
    \* ---- ParticleLayer (particle-layer.js) ----
    particles,      \* this.particles: the Particle objects, in order
    mouse,          \* this.mouse, <<x, y>>
    currentMode,    \* this.currentMode
    isAnimating,    \* this.isAnimating
    galaxyColors,   \* this.galaxyColors: the hsl of each colour received
    snapped,        \* history: the latest setMode left sync and no frame or new targets came since
    tick,           \* history: "none", or the latest call: "frame", or "snap" for the
                    \* first frame after leaving sync
    before,         \* history: this.particles before the latest frame
    calls,          \* history: the number of calls of the layer
    listeners,      \* the events of the window that call the layer (addEventListener)
    \* ---- the growth of a ColorCube as a function (ColorCube.updateGrowthAnimation) ----
    easeIn,     \* two elapsed times, in tenths of a second
    easeOut,    \* <<>>, or the cube after a frame at each of the two
    \* ---- the colour conversions as functions (ColorUtils) ----
    colorIn,    \* an RGB triple
    colorOut,   \* <<>>, or <<rgbToHsl of the triple, hslToRgb of that>>
    \* ---- the point cloud of GalaxyLayer (particlesGeometry.attributes) ----
    positions,          \* 'position': <<x, y, z>> of each point
    pointColors,        \* 'color': <<r, g, b>> of each point
    sizes,              \* 'size' of each point
    originalPositions,  \* 'originalPosition': the place of each point in the spiral
    velocities,         \* 'velocity': the explosion velocity of each point
    galaxyMouse,        \* this.mouse, which follows this.targetMouse
    sampled,            \* history: what the latest sampleColorsInRegion returned
    cloudCalls          \* history: the number of calls that read or wrote the cloud

busVars == <<events, heap, stack, thrown, registry, cleared, offActed>>

envVars == <<now, timers>>

galaxyVars == <<bigBangState, bigBangStartTime, bloomStrength, targetMouse,
                published, completions>>

blendVars == <<blendIn, blendOut>>

paletteVars == <<palette, localStorage, appInit, adds, unsaved>>

appVars == <<subs, frameChain, disposed, layersDisposed, lastFrame, cubeBackground,
             colorCube, mode,
             selectedColors, clicks, receivedAt, growthStarts, lateStarts, sampling>>

particleVars == <<particles, mouse, currentMode, isAnimating, galaxyColors,
                  snapped, tick, before, calls, listeners>>

\* the state of the specifications of one function or one layer
easeVars == <<easeIn, easeOut>>

colorVars == <<colorIn, colorOut>>

cloudVars == <<positions, pointColors, sizes, originalPositions, velocities, galaxyMouse,
               sampled, cloudCalls>>

sideVars == <<blendVars, particleVars, easeVars, colorVars, cloudVars>>

\* what a call of the bus leaves alone
notBus == <<envVars, galaxyVars, sideVars, paletteVars, appVars>>

vars == <<busVars, envVars, galaxyVars, sideVars, paletteVars, appVars>>

-----------------------------------------------------------------------------
(* Bounds *)

\* the most subscriptions, over all events, the model explores
MaxRegs == 3

\* how many clock steps the model follows
MaxSteps == 28

\* the most bloom-reset timers pending at once
MaxPending == 2

\* the longest elapsed time, in tenths of a second, the blend fraction is computed for
MaxElapsed == 70

\* the most addToPalette calls the model follows
MaxAdds == 3

\* the most clicks on the galaxy the model follows in the application
MaxClicks == 1

\* the clicks on the galaxy where the modal is opened and closed repeatedly
MaxVisits == 2

\* the time up to which the clock runs where the colours are sampled
MaxAnalyzeNow == 60

\* the most calls of the particle layer the model follows
MaxCalls == 5

\* the most frame callbacks of one cube pending at once, when the cube is called alone
MaxChains == 2

\* the longest elapsed time, in tenths of a second, a cube's growth is computed for
MaxGrowthElapsed == 50

-----------------------------------------------------------------------------
(***************************************************************************)
(* EventBus                                                                *)
(***************************************************************************)

\* undefined (array references are 1, 2, ...)
Undefined == 0

\* what a property inherited from Object.prototype holds: a function, truthy, no array
ProtoFunction == -1

\* event names that are no member of Object.prototype
OwnNames == {"e", "f"}

\* an event name that is a member of Object.prototype: ({}).constructor
ProtoNames == {"constructor"}

EventNames == OwnNames \cup ProtoNames

\* payload objects: d1 is published by the caller, dr by the re-entrant handler
Data == {"d1", "dr"}

\* handler references. h1, h2 return at once; the others call the bus while they run
Callbacks == {"h1", "h2", "hEmit", "hOn", "hOff", "hClear"}

NoCall == [op |-> "none"]

\* what a handler does when invoked: at most one call of the bus it is registered on
Body(callback) ==
    CASE callback = "hEmit"  -> [op |-> "emit", event |-> "f", data |-> "dr"]
      [] callback = "hOn"    -> [op |-> "on", event |-> "e", callback |-> "h2"]
      [] callback = "hOff"   -> [op |-> "off", event |-> "e", callback |-> "h2"]
      [] callback = "hClear" -> [op |-> "clear"]
      [] OTHER               -> NoCall

\* array references: one per event, one per running forEach (at most two, see Ends),
\* one being allocated
ArrIds == 1 .. (Cardinality(OwnNames) + 3)

\* the own event names in a fixed order
NameOrder == <<"e", "f">>

\* the references held by this.events and by the running forEach calls, in a fixed order
Roots(ev, st) ==
    [i \in 1 .. (Len(NameOrder) + Len(st)) |->
        IF i <= Len(NameOrder) THEN ev[NameOrder[i]] ELSE st[i - Len(NameOrder)].arr]

Referenced(ev, st) ==
    {Roots(ev, st)[i] : i \in 1 .. (Len(NameOrder) + Len(st))} \ {Undefined}

\* new Array: a reference nothing holds
NewArr(b) ==
    LET free == ArrIds \ Referenced(b.events, b.stack)
    IN CHOOSE a \in free : \A c \in free : a <= c

\* the place of a live array among the live arrays, in the order of Roots
Rank(ev, st, a) ==
    LET r == Roots(ev, st)
        first(x) == CHOOSE i \in DOMAIN r : r[i] = x /\ \A j \in 1 .. (i - 1) : r[j] # x
    IN Cardinality({i \in 1 .. first(a) : r[i] # Undefined /\ \A j \in 1 .. (i - 1) : r[j] # r[i]})

\* garbage collection: an array nothing refers to is gone, and the live arrays are
\* renumbered in the order of Roots (a reference is an identity, never a number the
\* program reads)
Collect(b) ==
    LET live == Referenced(b.events, b.stack)
        new == [a \in live \cup {Undefined} |->
                   IF a = Undefined THEN Undefined ELSE Rank(b.events, b.stack, a)]
    IN [events |-> [n \in OwnNames |-> new[b.events[n]]],
        stack |-> [i \in 1 .. Len(b.stack) |-> [b.stack[i] EXCEPT !.arr = new[@]]],
        heap |-> [a \in ArrIds |->
                    IF \E x \in live : new[x] = a
                    THEN b.heap[CHOOSE x \in live : new[x] = a]
                    ELSE <<>>],
        thrown |-> b.thrown]

\* this.events[event]: an own property, else what Object.prototype has, else undefined
Get(ev, event) ==
    IF event \in OwnNames /\ ev[event] # Undefined THEN ev[event]
    ELSE IF event \in ProtoNames THEN ProtoFunction
    ELSE Undefined

\* an uncaught TypeError in method m unwinds every running forEach
Throw(b, m) == [b EXCEPT !.thrown = m, !.stack = <<>>]

push_front(arr, callback) == <<callback>> \o arr

\* Array.prototype.push
push(arr, callback) == Append(arr, callback)

filter_first(arr, callback) ==
    IF \E i \in 1 .. Len(arr) : arr[i] = callback
    THEN LET i == CHOOSE j \in 1 .. Len(arr) :
                    arr[j] = callback /\ \A k \in 1 .. (j - 1) : arr[k] # callback
         IN SubSeq(arr, 1, i - 1) \o SubSeq(arr, i + 1, Len(arr))
    ELSE arr

\* arr.filter(cb => cb !== callback): a new array
filter(arr, callback) == SelectSeq(arr, LAMBDA cb : cb # callback)

\* an on() whose new handler a running forEach of the event comes to call
on_seen_by_forEach(b, event, callback) ==
    LET cur == Get(b.events, event) IN
    IF cur = ProtoFunction
    THEN Throw(b, "on")
    ELSE LET a == IF cur = Undefined THEN NewArr(b) ELSE cur
             arr == IF cur = Undefined THEN <<>> ELSE b.heap[cur]
         IN [b EXCEPT !.events[event] = a, !.heap[a] = push(arr, callback),
                      !.stack = [i \in DOMAIN b.stack |->
                                    IF b.stack[i].arr = a
                                    THEN [b.stack[i] EXCEPT !.len = @ + 1]
                                    ELSE b.stack[i]]]

\* EventBus.on
on(b, event, callback) ==
    LET cur == Get(b.events, event) IN
    IF cur = ProtoFunction
    THEN Throw(b, "on")                 \* this.events[event].push is not a function
    ELSE LET a == IF cur = Undefined THEN NewArr(b) ELSE cur
             arr == IF cur = Undefined THEN <<>> ELSE b.heap[cur]
         IN [b EXCEPT !.events[event] = a, !.heap[a] = push(arr, callback)]

\* EventBus.off
off(b, event, callback) ==
    LET cur == Get(b.events, event) IN
    IF cur = Undefined THEN b
    ELSE IF cur = ProtoFunction
    THEN Throw(b, "off")                \* this.events[event].filter is not a function
    ELSE LET a == NewArr(b)
         IN [b EXCEPT !.events[event] = a, !.heap[a] = filter(b.heap[cur], callback)]

\* EventBus.clear
clear(b) == [b EXCEPT !.events = [n \in OwnNames |-> Undefined]]

forEach_deferred(b, event, data) ==
    [b EXCEPT !.stack = <<[event |-> event, arr |-> b.events[event],
                           len |-> Len(b.heap[b.events[event]]), k |-> 0, data |-> data,
                           called |-> <<>>, expect |-> <<>>]>> \o @]

\* Array.prototype.forEach begins: the array and its length are read once
forEach(b, event, data) ==
    [b EXCEPT !.stack = Append(@, [event |-> event, arr |-> b.events[event],
                                   len |-> Len(b.heap[b.events[event]]), k |-> 0,
                                   data |-> data,
                                   called |-> <<>>, expect |-> <<>>])]

\* EventBus.emit, up to the first callback
emit(b, event, data) ==
    LET cur == Get(b.events, event) IN
    IF cur = Undefined THEN b
    ELSE IF cur = ProtoFunction
    THEN Throw(b, "emit")               \* this.events[event].forEach is not a function
    ELSE forEach(b, event, data)

\* one call of the bus, by the program or by a running handler
Apply(b, c) ==
    CASE c.op = "on"    -> on(b, c.event, c.callback)
      [] c.op = "off"   -> off(b, c.event, c.callback)
      [] c.op = "emit"  -> emit(b, c.event, c.data)
      [] c.op = "clear" -> clear(b)
      [] OTHER          -> b

\* the handler lists as seen through this.events (no list: empty)
Handlers(ev, hp, event) == IF ev[event] = Undefined THEN <<>> ELSE hp[ev[event]]

Bus == [events |-> events, heap |-> heap, stack |-> stack, thrown |-> "no"]

\* history: what the call does to the subscriptions, in the spec's terms
Subscribed(reg, c, ok) ==
    IF ~ok \/ c.op \notin {"on", "off", "clear"} THEN reg
    ELSE IF c.op = "clear" THEN [n \in OwnNames |-> <<>>]
    ELSE IF c.event \notin OwnNames THEN reg
    ELSE IF c.op = "on" THEN [reg EXCEPT ![c.event] = Append(@, c.callback)]
    ELSE [reg EXCEPT ![c.event] = SelectSeq(@, LAMBDA cb : cb # c.callback)]

\* the state after a bus call c that took b0 to b
Commit(b0, b, c) ==
    \E r \in {b} :
       /\ thrown' = r.thrown
       /\ registry' = Subscribed(registry, c, r.thrown = "no")
       /\ cleared' = IF c.op = "clear" THEN TRUE
                     ELSE IF r.thrown = "no" /\ c.op = "on" THEN FALSE
                     ELSE cleared
       /\ offActed' = IF c.op = "none" THEN offActed
                      ELSE /\ c.op = "off"
                           /\ Subscribed(registry, c, r.thrown = "no") # registry
       /\ \E gc \in {Collect([r EXCEPT !.stack =
                       \* history: a forEach that began in this call is expected to
                       \* call the subscribers of now
                       IF Len(r.stack) > Len(b0.stack)
                       THEN [r.stack EXCEPT ![Len(r.stack)].expect = registry[c.event]]
                       ELSE r.stack])} :
             /\ events' = gc.events
             /\ heap' = gc.heap
             /\ stack' = gc.stack
       /\ UNCHANGED notBus

\* the program calls the bus only when no dispatch is running (one thread)
Idle == stack = <<>>

\* a bus the model still explores
Fits(c) == c.op = "on" /\ c.event \in OwnNames =>
              Len(Handlers(events, heap, "e")) + Len(Handlers(events, heap, "f")) < MaxRegs

\* the handlers that call the bus subscribe to e only; one that publishes f and is
\* subscribed to f would never end the dispatch
Ends(c) == c.op = "on" /\ c.event = "f" => Body(c.callback) = NoCall

CallOn(event, callback) ==
    LET c == [op |-> "on", event |-> event, callback |-> callback] IN
    /\ Idle /\ Fits(c) /\ Ends(c)
    /\ Commit(Bus, Apply(Bus, c), c)

CallOff(event, callback) ==
    LET c == [op |-> "off", event |-> event, callback |-> callback] IN
    /\ Idle
    /\ Commit(Bus, Apply(Bus, c), c)

CallEmit(event, data) ==
    LET c == [op |-> "emit", event |-> event, data |-> data] IN
    /\ Idle
    /\ Commit(Bus, Apply(Bus, c), c)

CallClear ==
    LET c == [op |-> "clear"] IN
    /\ Idle
    /\ Commit(Bus, Apply(Bus, c), c)

\* forEach calls the next callback: callback(data), and the handler runs
Dispatch ==
    /\ stack # <<>>
    /\ LET top == stack[Len(stack)]
           cb == heap[top.arr][top.k + 1]
           c == Body(cb)
           b0 == [Bus EXCEPT !.stack[Len(stack)] =
                     [top EXCEPT !.k = top.k + 1,
                                 !.called = Append(@, <<cb, top.data>>)]]
       IN /\ top.k < top.len
          /\ Fits(c)
          /\ Commit(b0, Apply(b0, c), c)

\* forEach has called every element it set out to call: emit returns
Return ==
    /\ stack # <<>>
    /\ stack[Len(stack)].k >= stack[Len(stack)].len
    /\ LET b == [Bus EXCEPT !.stack = SubSeq(stack, 1, Len(stack) - 1)]
       IN Commit(b, b, NoCall)

\* new EventBus()
NewEventBus ==
    /\ events = [n \in OwnNames |-> Undefined]
    /\ heap = [a \in ArrIds |-> <<>>]
    /\ stack = <<>>
    /\ thrown = "no"
    /\ registry = [n \in OwnNames |-> <<>>]
    /\ cleared = FALSE
    /\ offActed = FALSE

-----------------------------------------------------------------------------
(***************************************************************************)
(* The environment: Date.now() and setTimeout.  Times are in tenths of a   *)
(* second; the clock moves in steps of half a second or a whole one (of a  *)
(* whole one in the application), and a timer that is due fires before the *)
(* clock moves on.                                                         *)
(***************************************************************************)

ClockSteps == {5, 10}

MaxNow == MaxSteps * 5

\* setTimeout(kind, delay)
setTimeout(kind, delay) == timers (+) SetToBag({[kind |-> kind, due |-> now + delay]})

Due == {t \in BagToSet(timers) : t.due <= now}

\* time passes
Tick(d) ==
    /\ Due = {}
    /\ now + d <= MaxNow
    /\ now' = now + d

InitEnv ==
    /\ now = 0
    /\ timers = EmptyBag

-----------------------------------------------------------------------------
(***************************************************************************)
(* GalaxyLayer.  The phase, the explosion clock, the bloom target and the  *)
(* pointer target, and the attributes of the points as createParticles     *)
(* makes them; what the frames and the clicks do to the points is under    *)
(* "The point cloud of GalaxyLayer".  The camera, the rotation of the mesh *)
(* and the page's elements are not part of this state: no decision about   *)
(* the phase, a point or a notification reads them.                        *)
(***************************************************************************)

\* config.particleCount
particleCount == 15000

\* config.bloomStrength * 10, at rest and after a click
BloomRest == 15

BloomPulse == 50

\* the delay of the timer that ends the pulse
BloomReset == 3

\* the explosion's first part, and the length of the formation that follows it
FormationStart == 20

FormationSpan == 40

\* window.innerWidth / 2 and window.innerHeight / 2
windowHalfX == 400

windowHalfY == 300

\* where the pointer is
Pointers == {<<400, 300>>, <<800, 600>>}

\* the blend fraction is a number of One-ths
One == FormationSpan * FormationSpan * FormationSpan

Min(a, b) == IF a < b THEN a ELSE b

\* Math.min((elapsed - 2.0) / 4.0, 1), a number of FormationSpan-ths
clamp_missing(elapsed) == elapsed - FormationStart

clamp(elapsed) == Min(elapsed - FormationStart, FormationSpan)

\* let formationProgress = 0; if (elapsed > 2.0) { ...;  1 - Math.pow(1 - ., 3) }
formationProgress(elapsed) ==
    IF elapsed > FormationStart
    THEN LET rest == FormationSpan - clamp(elapsed)
         IN One - rest * rest * rest
    ELSE 0

startBigBang ==
    /\ bigBangStartTime' = now
    /\ bigBangState' = "explosion"
    /\ UNCHANGED <<bloomStrength, targetMouse, published, completions>>

onMouseMove(x, y) ==
    /\ targetMouse' = <<(x - windowHalfX) \div 20, (y - windowHalfY) \div 20>>
    /\ UNCHANGED <<bigBangState, bigBangStartTime, bloomStrength, published, completions>>

\* a click whose pulse no timer ends
onClick_pulse_kept(x, y) ==
    /\ bloomStrength' = BloomPulse
    /\ timers' = timers
    /\ UNCHANGED <<bigBangState, bigBangStartTime, targetMouse, published, completions>>

\* emits 'galaxy:click', then starts the pulse
onClick(x, y) ==
    /\ bloomStrength' = BloomPulse
    /\ timers' = setTimeout("bloom", BloomReset)
    /\ UNCHANGED <<bigBangState, bigBangStartTime, targetMouse, published, completions>>

\* () => { this.config.bloomStrength = 1.5; }
bloomTimeout ==
    /\ bloomStrength' = BloomRest
    /\ UNCHANGED <<bigBangState, bigBangStartTime, targetMouse, published, completions>>

\* one frame.  In the explosion the loop over the points sets the phase to complete
\* once the blend fraction is 1, and the notification follows the loop
animate ==
    IF bigBangState = "explosion"
    THEN LET elapsed == now - bigBangStartTime
             complete == formationProgress(elapsed) >= One /\ particleCount > 0
         IN /\ bigBangState' = IF complete THEN "complete" ELSE bigBangState
            /\ completions' = IF complete THEN completions + 1 ELSE completions
            /\ published' = IF complete THEN published + 1 ELSE published
            /\ UNCHANGED <<bigBangStartTime, bloomStrength, targetMouse>>
    ELSE UNCHANGED galaxyVars

\* the points that createParticles draws with Math.random(), two of the 15000: one
\* near the centre of the spiral and one far out.  A coordinate is in tenths of a
\* unit of the scene, a velocity in tenths of a unit a second, a colour channel in
\* thousandths ('#FFFFFF' and '#FF4500' of bangColors), a size in tenths
CloudSeeds ==
    << [originalPosition |-> <<12, 5, 0 - 9>>, velocity |-> <<30, 40, 0>>,
        color |-> <<1000, 1000, 1000>>, size |-> 5],
       [originalPosition |-> <<0 - 180, 0 - 15, 240>>, velocity |-> <<0 - 120, 0, 160>>,
        color |-> <<1000, 271, 0>>, size |-> 15] >>

\* every point starts at the centre
createParticles ==
    /\ positions = [i \in DOMAIN CloudSeeds |-> <<0, 0, 0>>]
    /\ pointColors = [i \in DOMAIN CloudSeeds |-> CloudSeeds[i].color]
    /\ sizes = [i \in DOMAIN CloudSeeds |-> CloudSeeds[i].size]
    /\ originalPositions = [i \in DOMAIN CloudSeeds |-> CloudSeeds[i].originalPosition]
    /\ velocities = [i \in DOMAIN CloudSeeds |-> CloudSeeds[i].velocity]

\* new GalaxyLayer(container, eventBus)
NewGalaxyLayer ==
    /\ createParticles
    /\ galaxyMouse = <<0, 0>>
    /\ sampled = <<>>
    /\ cloudCalls = 0
    /\ bigBangState = "singularity"
    /\ bigBangStartTime = 0
    /\ bloomStrength = BloomRest
    /\ targetMouse = <<0, 0>>
    /\ published = 0
    /\ completions = 0

\* ---- a GalaxyLayer whose methods are called in any order ----

StartBigBang == startBigBang /\ UNCHANGED <<busVars, envVars, sideVars, paletteVars, appVars>>

Animate == animate /\ UNCHANGED <<busVars, envVars, sideVars, paletteVars, appVars>>

OnMouseMove(x, y) == onMouseMove(x, y) /\ UNCHANGED <<busVars, envVars, sideVars, paletteVars, appVars>>

OnClick(x, y) ==
    /\ BagCardinality(timers) < MaxPending
    /\ onClick(x, y)
    /\ UNCHANGED <<busVars, now, sideVars, paletteVars, appVars>>

BloomTimeout ==
    \E t \in Due :
       /\ t.kind = "bloom"
       /\ timers' = timers (-) SetToBag({t})
       /\ bloomTimeout
       /\ UNCHANGED <<busVars, now, sideVars, paletteVars, appVars>>

Clock == \E d \in ClockSteps : Tick(d) /\ UNCHANGED <<busVars, timers, galaxyVars, sideVars, paletteVars, appVars>>

-----------------------------------------------------------------------------
(***************************************************************************)
(* The blend fraction as a function of the elapsed time                    *)
(***************************************************************************)

Elapsed == (0 - 5) .. MaxElapsed

NoBlend ==
    /\ blendIn = <<0, 0>>
    /\ blendOut = <<>>

Blend ==
    /\ blendOut = <<>>
    /\ blendOut' = <<formationProgress(blendIn[1]), formationProgress(blendIn[2])>>
    /\ UNCHANGED <<blendIn, particleVars, easeVars, colorVars, cloudVars, busVars, envVars,
                   galaxyVars, paletteVars, appVars>>

-----------------------------------------------------------------------------
(***************************************************************************)
(* The palette and its copy in the browser's storage.  A text is the       *)
(* sequence of its tokens; a colour is one token.                          *)
(***************************************************************************)

\* the most colours the palette takes before it drops one
PaletteMax == 8

\* colours of different hex, in the order the model stores them
ColorSeq == <<"c1", "c2", "c3", "c4", "c5", "c6", "c7", "c8", "c9">>

\* c1x is another colour object with the hex of c1
Colors == {ColorSeq[i] : i \in 1 .. Len(ColorSeq)} \cup {"c1x"}

\* color.hex
hex(color) == IF color = "c1x" THEN "c1" ELSE color

\* the value null, which is no list
Null == <<"null">>

PaletteKey == "cosmic-lab-palette"

RECURSIVE Join(_)
Join(list) ==
    IF Len(list) <= 1 THEN list
    ELSE <<list[1], ",">> \o Join(Tail(list))

\* JSON.stringify(value)
stringify(value) ==
    IF value = Null THEN <<"null">>
    ELSE <<"[">> \o Join(value) \o <<"]">>

\* the text is a list of colours
IsListText(text) ==
    /\ Len(text) >= 2
    /\ text[1] = "[" /\ text[Len(text)] = "]"
    /\ Len(text) = 2 \/ Len(text) % 2 = 1
    /\ \A i \in 2 .. Len(text) - 1 :
          IF i % 2 = 0 THEN text[i] \in Colors ELSE text[i] = ","

\* JSON.parse(text): the value, or a SyntaxError
parse(text) ==
    IF text = <<"null">> THEN [ok |-> TRUE, value |-> Null]
    ELSE IF IsListText(text)
         THEN [ok |-> TRUE, value |-> [i \in 1 .. (Len(text) - 1) \div 2 |-> text[2 * i]]]
         ELSE [ok |-> FALSE, value |-> <<>>]

\* localStorage.getItem(key): the text, or null
Has(storage, key) == key \in DOMAIN storage

\* localStorage.setItem(key, text)
setItem(storage, key, text) ==
    [k \in DOMAIN storage \cup {key} |-> IF k = key THEN text ELSE storage[k]]

\* StorageUtils.savePalette(colors); setItem throws when the storage takes no more
savePalette_other_key(storage, colors, full) ==
    IF full THEN storage
    ELSE setItem(storage, "palette", stringify(colors))

savePalette(storage, colors, full) ==
    IF full THEN storage
    ELSE setItem(storage, PaletteKey, stringify(colors))

\* StorageUtils.loadPalette(): data ? JSON.parse(data) : [], and [] when that throws
StorageLoadPalette(storage) ==
    IF Has(storage, PaletteKey) /\ storage[PaletteKey] # <<>>
    THEN LET r == parse(storage[PaletteKey])
         IN IF r.ok THEN r.value ELSE <<>>
    ELSE <<>>

\* palette.some(c => c.hex === color.hex)
exists(list, color) == \E i \in 1 .. Len(list) : hex(list[i]) = hex(color)

\* if (palette.length >= 8) palette.shift()
shift_missing(list) == list

shift(list) == IF Len(list) >= PaletteMax THEN Tail(list) ELSE list

\* what the storage holds when the page opens: nothing, an empty text, a saved list of
\* any length up to one more than the palette takes, a cut-off text, or null
SavedLists == {SubSeq(ColorSeq, 1, n) : n \in 0 .. Len(ColorSeq)}

StoredTexts ==
    {<<>>, <<"[", "c1", ",">>, <<"null">>} \cup {stringify(l) : l \in SavedLists}

Storages == {<<>>} \cup {[k \in {PaletteKey} |-> t] : t \in StoredTexts}

\* new CosmicLabApp(), before init() loads the palette
NewPalette ==
    /\ palette = <<>>
    /\ localStorage = <<>>
    /\ appInit = "new"
    /\ adds = 0
    /\ unsaved = FALSE

\* CosmicLabApp.loadPalette() in init(); renderPalette() throws on a palette that has
\* no map()
loadPalette ==
    /\ palette' = StorageLoadPalette(localStorage)
    /\ appInit' = IF palette' = Null THEN "failed" ELSE "loaded"
    /\ UNCHANGED <<localStorage, adds, unsaved>>

LoadPalette ==
    /\ appInit = "new"
    /\ loadPalette
    /\ UNCHANGED <<busVars, envVars, galaxyVars, sideVars, appVars>>

\* CosmicLabApp.addToPalette(color); on a palette that is no list some() throws
addToPalette(color, full) ==
    IF palette = Null \/ exists(palette, color)
    THEN UNCHANGED <<palette, localStorage, unsaved>>
    ELSE /\ palette' = Append(shift(palette), color)
         /\ localStorage' = savePalette(localStorage, palette', full)
         /\ unsaved' = full

AddToPalette(color, full) ==
    /\ appInit # "new"
    /\ adds < MaxAdds
    /\ adds' = adds + 1
    /\ addToPalette(color, full)
    /\ UNCHANGED appInit
    /\ UNCHANGED <<busVars, envVars, galaxyVars, sideVars, appVars>>

-----------------------------------------------------------------------------
(***************************************************************************)
(* ColorCube: what show() and the cube's frames do to its growth.  A cube  *)
(* is a record; colorsData is the number of colours it holds, or NoColors  *)
(* when it is undefined, fetching tells whether the request of fetchColors *)
(* is still out, frames is the number of the cube's pending                *)
(* requestAnimationFrame callbacks, and animationId                        *)
(* tells whether the cube holds the id of one of them.  Three fields are   *)
(* history: call is the latest call of the cube, emitted the events that   *)
(* call emitted, in order, and completes the number of                     *)
(* 'colorCube:growthComplete' events since the growth last started.        *)
(***************************************************************************)

\* config.growthDuration
growthDuration == 40

\* new ColorCube(container, eventBus); the palette it fetches has not arrived
\* config.repulsionRadius
repulsionRadius == 400

NewColorCube ==
    [isActive |-> FALSE, isGrowing |-> FALSE, growthStartTime |-> 0,
     growthProgress |-> 0, currentScale |-> 0, colorsData |-> 0, fetching |-> TRUE,
     frames |-> 0,
     animationId |-> FALSE, call |-> "new", emitted |-> <<>>, completes |-> 0]

\* this.colorsData is undefined
NoColors == 0 - 1

\* how the request of fetchColors ends: the promise is rejected (no answer, or one
\* that is no JSON), or the answer is a JSON body, with a list of colours or, as the
\* body of an error is, without one
Answers == {"rejected", "colors", "no colors"}

\* the callbacks of fetchColors: .then stores data.colors and reads its length for
\* the log, which throws on undefined into .catch; .catch only logs
fetched(cube, answer, colors) ==
    [cube EXCEPT !.fetching = FALSE,
                 !.colorsData = IF answer = "colors" THEN colors
                                ELSE IF answer = "no colors" THEN NoColors
                                ELSE @]

startGrowthAnimation(cube, t) ==
    [cube EXCEPT !.isGrowing = TRUE, !.growthProgress = 0, !.currentScale = 0,
                 !.growthStartTime = t, !.completes = 0]

\* an event of the cube with its data; the radius is in hundreds of pixels
CubeEvent(name, progress, scale) ==
    [name |-> name, progress |-> progress, scale |-> scale,
     radius |-> (repulsionRadius \div 100) * scale]

Bare(name) == CubeEvent(name, 0, 0)

\* a scale is a number of Full-ths
Full == 2 * growthDuration * growthDuration * growthDuration * growthDuration

Pow4(n) == n * n * n * n

\* the easing without its second half
eased_first_half(progress) == 16 * Pow4(progress)

\* the easing of the growth: 8 p^4 below a half, 1 - (-2 p + 2)^4 / 2 from a half on,
\* for p = progress / growthDuration
eased(progress) ==
    IF 2 * progress < growthDuration
    THEN 16 * Pow4(progress)
    ELSE Full - Pow4(2 * growthDuration - 2 * progress)

\* growthProgress is a number of growthDuration-ths
\* updateGrowthAnimation without its 'colorCube:growthComplete'
updateGrowthAnimation_silent(cube, t) ==
    LET progress == Min(t - cube.growthStartTime, growthDuration)
    IN [cube EXCEPT !.growthProgress = progress,
                    !.currentScale = eased(progress),
                    !.emitted = Append(@, CubeEvent("colorCube:growthUpdate", progress,
                                                    eased(progress))),
                    !.isGrowing = progress < growthDuration]

updateGrowthAnimation(cube, t) ==
    LET progress == Min(t - cube.growthStartTime, growthDuration)
        growthUpdate == CubeEvent("colorCube:growthUpdate", progress, eased(progress))
    IN [cube EXCEPT !.growthProgress = progress,
                    !.currentScale = eased(progress),
                    !.emitted = IF progress >= growthDuration
                                THEN @ \o <<growthUpdate, Bare("colorCube:growthComplete")>>
                                ELSE Append(@, growthUpdate),
                    !.completes = IF progress >= growthDuration THEN @ + 1 ELSE @,
                    !.isGrowing = progress < growthDuration]

\* ColorCube.animate(): one frame of the cube, which asks for the next
cubeAnimate(cube, t) ==
    IF ~cube.isActive THEN cube
    ELSE LET next == [cube EXCEPT !.frames = @ + 1, !.animationId = TRUE]
         IN IF next.isGrowing THEN updateGrowthAnimation(next, t) ELSE next

\* a requestAnimationFrame callback of the cube runs
cubeFrame(cube, t) ==
    cubeAnimate([cube EXCEPT !.frames = @ - 1, !.call = "animate", !.emitted = <<>>], t)

\* the cube without the history of its calls, for where no event of the cube is observed
Quiet(cube) == [cube EXCEPT !.call = "new", !.emitted = <<>>, !.completes = 0]

\* ColorCube.show(colors), colors the number of colours passed: 0 for none or for an
\* empty list.  this.colorsData.length throws when colorsData is undefined
show(cube, colors, t) ==
    LET data == IF colors > 0 THEN colors ELSE cube.colorsData
        active == [cube EXCEPT !.isActive = TRUE, !.colorsData = data,
                               !.call = "show", !.emitted = <<>>]
        growing == [startGrowthAnimation(active, t) EXCEPT
                       !.emitted = <<Bare("colorCube:growing")>>]
    IN IF data = NoColors THEN [active EXCEPT !.call = "show: TypeError"]
       ELSE IF data = 0 THEN active
       ELSE cubeAnimate(growing, t)

\* a hide() that also takes the growth back to its start
hide_resetting(cube) ==
    [cube EXCEPT !.isActive = FALSE, !.isGrowing = FALSE,
                 !.growthProgress = 0, !.currentScale = 0,
                 !.frames = IF cube.animationId THEN @ - 1 ELSE @,
                 !.animationId = FALSE,
                 !.call = "hide", !.emitted = <<Bare("colorCube:hidden")>>]

\* ColorCube.hide(): cancelAnimationFrame(this.animationId) takes back one callback
hide(cube) ==
    [cube EXCEPT !.isActive = FALSE, !.isGrowing = FALSE,
                 !.frames = IF cube.animationId THEN @ - 1 ELSE @,
                 !.animationId = FALSE,
                 !.call = "hide", !.emitted = <<Bare("colorCube:hidden")>>]

-----------------------------------------------------------------------------
(***************************************************************************)
(* CosmicLabApp: start, frames, clicks, keys, the timers and dispose.  The *)
(* particles, the points of the galaxy and the events of the cubes have    *)
(* their own specifications and stand still here; the interval that        *)
(* samples the galaxy's colours runs in SpecAnalyze.                       *)
(***************************************************************************)

\* the delays of init()'s two timers and of the timer the notification starts
LoadingDelay == 10

BangDelay == 5

GrowthDelay == 30

\* the period of the colour sampling, 2000 ms
SampleDelay == 20

\* generateSampleColors(500)
SampleCount == 500

AppEvents == {"galaxy:click", "galaxy:bigBangComplete", "galaxy:colorUpdate"}

\* eventBus.on(event, handler)
subscribe(registered, event, handler) ==
    [registered EXCEPT ![event] = Append(@, handler)]

\* the handler of 'galaxy:bigBangComplete': setTimeout(() => startColorCubeGrowth(), 3000)
onBigBangComplete_at_once(pending) ==
    pending (+) SetToBag({[kind |-> "growth", due |-> now]})

onBigBangComplete(pending) ==
    pending (+) SetToBag({[kind |-> "growth", due |-> now + GrowthDelay]})

\* new CosmicLabApp(): the layers are made, and the particle layer has subscribed
NewCosmicLabApp ==
    /\ subs = [e \in AppEvents |->
                  IF e = "galaxy:colorUpdate" THEN <<"particleLayer">> ELSE <<>>]
    /\ frameChain = 0
    /\ disposed = FALSE
    /\ layersDisposed = {}
    /\ lastFrame = <<>>
    /\ cubeBackground = NewColorCube
    /\ colorCube = NewColorCube
    /\ mode = "explore"
    /\ selectedColors = <<>>
    /\ clicks = 0
    /\ receivedAt = <<>>
    /\ growthStarts = 0
    /\ lateStarts = 0
    /\ sampling = [due |-> SampleDelay, emittedIn |-> {}, skippedIn |-> {}]

\* init() after the layers: setupEventListeners(), loadPalette(), animate() and the
\* timer that hides the loading screen; an exception ends init().  animate() asks for
\* the next frame and runs the first, which finds the galaxy a singularity
AppInit ==
    /\ appInit = "new"
    /\ subs' = subscribe(subscribe(subs, "galaxy:click", "enterAnalyzeMode"),
                         "galaxy:bigBangComplete", "growthTimer")
    /\ loadPalette
    /\ IF appInit' = "failed"
       THEN UNCHANGED <<frameChain, lastFrame, timers>>
       ELSE /\ frameChain' = frameChain + 1
            /\ lastFrame' = <<"galaxyLayer.animate", "particleLayer.animate",
                              "perfMonitor.update">>
            /\ timers' = setTimeout("loading", LoadingDelay)
    /\ UNCHANGED <<disposed, layersDisposed, cubeBackground, colorCube, mode,
                   selectedColors, clicks, receivedAt, growthStarts, lateStarts, sampling>>
    /\ UNCHANGED <<busVars, now, galaxyVars, sideVars>>

\* CosmicLabApp.animate(): asks for the next frame, then galaxyLayer.animate(), whose
\* notification runs the controller's handler
Frame ==
    /\ frameChain > 0
    /\ frameChain' = frameChain - 1 + 1
    /\ animate
    /\ lastFrame' = <<"galaxyLayer.animate", "particleLayer.animate", "perfMonitor.update">>
    /\ IF published' # published /\ subs["galaxy:bigBangComplete"] # <<>>
       THEN /\ timers' = onBigBangComplete(timers)
            /\ receivedAt' = Append(receivedAt, now)
       ELSE UNCHANGED <<timers, receivedAt>>
    /\ UNCHANGED <<subs, disposed, layersDisposed, cubeBackground, colorCube, mode,
                   selectedColors, clicks, growthStarts, lateStarts, sampling>>
    /\ UNCHANGED <<busVars, now, sideVars, paletteVars>>

\* the document's mousemove listener
MouseMove(x, y) ==
    /\ appInit # "new"
    /\ onMouseMove(x, y)
    /\ UNCHANGED <<busVars, envVars, sideVars, paletteVars, appVars>>

\* the timer of init() fires: the loading screen goes, and the next timer is set
LoadingTimeout ==
    \E t \in Due :
       /\ t.kind = "loading"
       /\ timers' = (timers (-) SetToBag({t}))
                       (+) SetToBag({[kind |-> "bang", due |-> now + BangDelay]})
       /\ UNCHANGED <<busVars, now, galaxyVars, sideVars, paletteVars, appVars>>

\* () => { this.galaxyLayer.startBigBang(); }
BangTimeout ==
    \E t \in Due :
       /\ t.kind = "bang"
       /\ timers' = timers (-) SetToBag({t})
       /\ startBigBang
       /\ UNCHANGED <<busVars, now, sideVars, paletteVars, appVars>>

\* startColorCubeGrowth(): colorCubeBackground.show(generateSampleColors(500))
startColorCubeGrowth ==
    /\ cubeBackground' = Quiet(show(cubeBackground, SampleCount, now))
    /\ growthStarts' = growthStarts + 1
    /\ lateStarts' = IF disposed THEN lateStarts + 1 ELSE lateStarts

\* the timer of the notification fires
GrowthTimeout ==
    \E t \in Due :
       /\ t.kind = "growth"
       /\ timers' = timers (-) SetToBag({t})
       /\ startColorCubeGrowth
       /\ UNCHANGED <<subs, frameChain, disposed, layersDisposed, lastFrame, colorCube,
                      mode, selectedColors,
                      clicks, receivedAt, sampling>>
       /\ UNCHANGED <<busVars, now, galaxyVars, sideVars, paletteVars>>

\* a frame of the background cube
CubeBackgroundFrame ==
    /\ cubeBackground.frames > 0
    /\ cubeBackground' = Quiet(cubeFrame(cubeBackground, now))
    /\ UNCHANGED <<subs, frameChain, disposed, layersDisposed, lastFrame, colorCube,
                   mode, selectedColors, clicks,
                   receivedAt, growthStarts, lateStarts, sampling>>
    /\ UNCHANGED <<busVars, envVars, galaxyVars, sideVars, paletteVars>>

\* a frame of the cube of the modal
ColorCubeFrame ==
    /\ colorCube.frames > 0
    /\ colorCube' = Quiet(cubeFrame(colorCube, now))
    /\ UNCHANGED <<subs, frameChain, disposed, layersDisposed, lastFrame, cubeBackground,
                   mode, selectedColors,
                   clicks, receivedAt, growthStarts, lateStarts, sampling>>
    /\ UNCHANGED <<busVars, envVars, galaxyVars, sideVars, paletteVars>>

\* what a click on the galaxy samples: data.colors
Samples == {<<>>, <<"c1">>, <<"c2", "c1">>}

\* enterAnalyzeMode(data); addToPalette throws on a palette that is no list
enterAnalyzeMode(colors, full) ==
    /\ mode' = "analyze"
    /\ selectedColors' = colors
    /\ colorCube' = Quiet(show(colorCube, Len(colors), now))
    /\ IF colors # <<>>
       THEN adds' = adds + 1 /\ addToPalette(colors[1], full)
       ELSE UNCHANGED <<palette, localStorage, adds, unsaved>>

\* the document's click listener: galaxyLayer.onClick, whose 'galaxy:click' runs
\* enterAnalyzeMode; when that throws, onClick ends before the pulse
documentClick(x, y, colors, full) ==
    /\ appInit # "new"
    /\ clicks' = clicks + 1
    /\ IF subs["galaxy:click"] # <<>>
       THEN enterAnalyzeMode(colors, full)
       ELSE UNCHANGED <<mode, selectedColors, colorCube, palette, localStorage, adds,
                        unsaved>>
    /\ IF subs["galaxy:click"] # <<>> /\ colors # <<>> /\ palette = Null
       THEN UNCHANGED <<galaxyVars, timers>>
       ELSE onClick(x, y)
    /\ UNCHANGED <<subs, frameChain, disposed, layersDisposed, lastFrame, cubeBackground,
                   receivedAt, growthStarts, lateStarts, sampling>>
    /\ UNCHANGED <<busVars, now, sideVars, appInit>>

\* a click on the galaxy
Click(x, y, colors, full) ==
    /\ clicks < MaxClicks
    /\ documentClick(x, y, colors, full)

\* a click on the galaxy, where the modal is opened more than once
ClickAgain(x, y, colors) ==
    /\ clicks < MaxVisits
    /\ documentClick(x, y, colors, FALSE)

\* the callback of the interval of sampleGalaxyColors(): in the explore mode it emits
\* 'galaxy:colorUpdate' with the colours sampled at the centre.  The points and the
\* particle layer, which receives the event, stand still here
sampleGalaxyColors ==
    /\ now >= sampling.due
    /\ sampling' = [due |-> sampling.due + SampleDelay,
                    emittedIn |-> IF mode = "explore"
                                  THEN sampling.emittedIn \cup {mode}
                                  ELSE sampling.emittedIn,
                    skippedIn |-> IF mode = "explore"
                                  THEN sampling.skippedIn
                                  ELSE sampling.skippedIn \cup {mode}]

SampleGalaxyColors ==
    /\ sampleGalaxyColors
    /\ UNCHANGED <<subs, frameChain, disposed, layersDisposed, lastFrame, cubeBackground,
                   colorCube, mode, selectedColors, clicks, receivedAt, growthStarts,
                   lateStarts>>
    /\ UNCHANGED <<busVars, envVars, galaxyVars, sideVars, paletteVars>>

\* an exitAnalyzeMode() that leaves the modal's cube as it is
exitAnalyzeMode_cube_shown ==
    /\ mode' = "explore"
    /\ colorCube' = Quiet(colorCube)

\* exitAnalyzeMode()
exitAnalyzeMode ==
    /\ mode' = "explore"
    /\ colorCube' = Quiet(hide(colorCube))

\* the keydown listener: Escape leaves the analyze mode
Escape ==
    /\ appInit # "new"
    /\ mode = "analyze"
    /\ exitAnalyzeMode
    /\ UNCHANGED <<subs, frameChain, disposed, layersDisposed, lastFrame, cubeBackground,
                   selectedColors, clicks,
                   receivedAt, growthStarts, lateStarts, sampling>>
    /\ UNCHANGED <<busVars, envVars, galaxyVars, sideVars, paletteVars>>

\* the click listener of the modal's close button
CloseModal ==
    /\ appInit # "new"
    /\ exitAnalyzeMode
    /\ UNCHANGED <<subs, frameChain, disposed, layersDisposed, lastFrame, cubeBackground,
                   selectedColors, clicks,
                   receivedAt, growthStarts, lateStarts, sampling>>
    /\ UNCHANGED <<busVars, envVars, galaxyVars, sideVars, paletteVars>>

\* time passes in the application
AppClock ==
    /\ Tick(10)
    /\ UNCHANGED <<busVars, timers, galaxyVars, sideVars, paletteVars, appVars>>

\* time passes up to the next callback of the interval
AnalyzeClock ==
    /\ now < sampling.due
    /\ now < MaxAnalyzeNow
    /\ AppClock

\* the layers initializeLayers() creates
Layers == {"galaxyLayer", "colorCubeBackground", "particleLayer", "colorCube"}

\* CosmicLabApp.dispose(): dispose() of the galaxy, of the particle layer and of the
\* modal cube, which hides it, and eventBus.clear(), which drops every subscription;
\* no timer and no frame of the controller is cancelled
\* a dispose() that takes back the timers of the growth
Dispose_cancelling ==
    /\ appInit # "new"
    /\ disposed' = TRUE
    /\ layersDisposed' = layersDisposed \cup {"galaxyLayer", "particleLayer", "colorCube"}
    /\ colorCube' = Quiet(hide(colorCube))
    /\ subs' = [e \in AppEvents |-> <<>>]
    /\ UNCHANGED <<frameChain, lastFrame, cubeBackground, mode, selectedColors, clicks, receivedAt,
                   growthStarts, lateStarts, sampling>>
    /\ timers' = [t \in {u \in DOMAIN timers : u.kind # "growth"} |-> timers[t]]
    /\ UNCHANGED <<busVars, now, galaxyVars, sideVars, paletteVars>>

Dispose ==
    /\ appInit # "new"
    /\ disposed' = TRUE
    /\ layersDisposed' = layersDisposed \cup {"galaxyLayer", "particleLayer", "colorCube"}
    /\ colorCube' = Quiet(hide(colorCube))
    /\ subs' = [e \in AppEvents |-> <<>>]
    /\ UNCHANGED <<frameChain, lastFrame, cubeBackground, mode, selectedColors, clicks, receivedAt,
                   growthStarts, lateStarts, sampling>>
    /\ UNCHANGED <<busVars, envVars, galaxyVars, sideVars, paletteVars>>

\* ---- a ColorCube whose methods are called in any order ----

\* a caller shows the cube, with colours or without, while its growth can still end
\* before the model's clock does
ShowCube(colors) ==
    /\ colorCube.frames < MaxChains
    /\ now + growthDuration <= MaxNow
    /\ colorCube' = show(colorCube, colors, now)
    /\ UNCHANGED <<subs, frameChain, disposed, layersDisposed, lastFrame, cubeBackground,
                   mode, selectedColors,
                   clicks, receivedAt, growthStarts, lateStarts, sampling>>
    /\ UNCHANGED <<busVars, envVars, galaxyVars, sideVars, paletteVars>>

\* the request of the cube's fetchColors ends
Fetched(answer, colors) ==
    /\ colorCube.fetching
    /\ colorCube' = fetched(colorCube, answer, colors)
    /\ UNCHANGED <<subs, frameChain, disposed, layersDisposed, lastFrame, cubeBackground,
                   mode, selectedColors, clicks, receivedAt, growthStarts, lateStarts, sampling>>
    /\ UNCHANGED <<busVars, envVars, galaxyVars, sideVars, paletteVars>>

HideCube ==
    /\ colorCube' = hide(colorCube)
    /\ UNCHANGED <<subs, frameChain, disposed, layersDisposed, lastFrame, cubeBackground,
                   mode, selectedColors, clicks, receivedAt, growthStarts, lateStarts, sampling>>
    /\ UNCHANGED <<busVars, envVars, galaxyVars, sideVars, paletteVars>>

\* a frame of the cube
CubeFrame ==
    /\ colorCube.frames > 0
    /\ colorCube' = cubeFrame(colorCube, now)
    /\ UNCHANGED <<subs, frameChain, disposed, layersDisposed, lastFrame, cubeBackground,
                   mode, selectedColors, clicks, receivedAt, growthStarts, lateStarts, sampling>>
    /\ UNCHANGED <<busVars, envVars, galaxyVars, sideVars, paletteVars>>

-----------------------------------------------------------------------------
(***************************************************************************)
(* ParticleLayer and Particle.  A position is kept to a whole pixel, a     *)
(* radius to a hundredth of a pixel and a glow to a thousandth, and each   *)
(* result is rounded to the nearest of these as a double is rounded to its *)
(* last bit; hues are multiples of a quarter turn, whose cosine and sine   *)
(* are whole.                                                              *)
(***************************************************************************)

\* config.ease, in hundredths
ease == 8

mouseInfluenceRadius == 120

mouseRepulsionForce == 3

\* config.mouseScaleMultiplier, in tenths
mouseScaleMultiplier == 35

\* the share of the way to its target radius a particle's radius goes in a frame,
\* in hundredths
radiusEase == 15

\* the canvas is the window
width == 2 * windowHalfX

height == 2 * windowHalfY

cx == width \div 2

cy == height \div 2

\* this.mouse before the pointer has moved
Offscreen == <<0 - 1000, 0 - 1000>>

\* where the pointer is moved to
ParticlePointers == {<<400, 300>>, <<790, 20>>}

Modes == {"spectrum", "wheel", "cylinder", "sync"}

\* what the constructor of Particle draws for each particle: a vibrant colour and a radius
Seeds ==
    << [h |-> 0, s |-> 50, l |-> 50, radius |-> 150],
       [h |-> 180, s |-> 80, l |-> 20, radius |-> 349] >>

\* and the positions it draws for them
Starts ==
    { << <<52, 300>>, <<400, 450>> >>,
      << <<700, 100>>, <<10, 590>> >> }

\* (Math.random() - 0.5) * 10, for each particle
Jitter == [DOMAIN Seeds -> {0 - 5, 0, 4}]

\* the colours a 'galaxy:colorUpdate' brings
ColorUpdates == {<<>>, <<[h |-> 270, s |-> 100, l |-> 50]>>}

Abs(n) == IF n < 0 THEN 0 - n ELSE n

Max(a, b) == IF a > b THEN a ELSE b

\* n / d to the nearest whole, for d > 0
Round(n, d) == (2 * n + d) \div (2 * d)

\* Math.sqrt to the nearest whole, within the reach of the pointer
Sqrt(n) ==
    CHOOSE r \in 0 .. 2 * mouseInfluenceRadius :
        (2 * r - 1) * (2 * r - 1) <= 4 * n /\ 4 * n < (2 * r + 1) * (2 * r + 1)

Cos(h) == CASE h = 0 -> 1 [] h = 90 -> 0 [] h = 180 -> 0 - 1 [] h = 270 -> 0

Sin(h) == CASE h = 0 -> 0 [] h = 90 -> 1 [] h = 180 -> 0 [] h = 270 -> 0 - 1

Particle(seed, at) ==
    [h |-> seed.h, s |-> seed.s, l |-> seed.l,
     radius |-> seed.radius, baseRadius |-> seed.radius, targetRadius |-> seed.radius,
     x |-> at[1], y |-> at[2], tx |-> at[1], ty |-> at[2],
     glowIntensity |-> 0]

\* a step of the easing that goes the wrong way
lerp_away(p) ==
    [p EXCEPT !.x = p.x - Round((p.tx - p.x) * ease, 100),
              !.y = p.y - Round((p.ty - p.y) * ease, 100)]

\* the first two statements of Particle.update
lerp(p) ==
    [p EXCEPT !.x = p.x + Round((p.tx - p.x) * ease, 100),
              !.y = p.y + Round((p.ty - p.y) * ease, 100)]

\* dist < config.mouseInfluenceRadius
Near(p, m) ==
    LET dx == m[1] - p.x
        dy == m[2] - p.y
    IN /\ Abs(dx) < mouseInfluenceRadius
       /\ Abs(dy) < mouseInfluenceRadius
       /\ dx * dx + dy * dy < mouseInfluenceRadius * mouseInfluenceRadius

\* an update that takes a tenth of the full glow off, away from the pointer
update_glow_subtracted(p, m) ==
    LET q == lerp(p)
        dx == m[1] - q.x
        dy == m[2] - q.y
        dist == Sqrt(dx * dx + dy * dy)
        \* influence = gap / mouseInfluenceRadius
        gap == mouseInfluenceRadius - dist
        targetRadius ==
            IF Near(q, m)
            THEN Round(q.baseRadius * (10 * mouseInfluenceRadius + gap * (mouseScaleMultiplier - 10)),
                       10 * mouseInfluenceRadius)
            ELSE q.baseRadius
        \* Math.cos(angle) * repulsionForce, with atan2(0, 0) = 0
        pushX == IF dist = 0 THEN mouseRepulsionForce
                 ELSE Round(dx * mouseRepulsionForce * gap, dist * mouseInfluenceRadius)
        pushY == IF dist = 0 THEN 0
                 ELSE Round(dy * mouseRepulsionForce * gap, dist * mouseInfluenceRadius)
    IN [q EXCEPT !.targetRadius = targetRadius,
                 !.glowIntensity =
                     IF Near(q, m)
                     THEN Max(q.glowIntensity, Round(800 * gap, mouseInfluenceRadius))
                     ELSE q.glowIntensity - 100,
                 !.x = IF Near(q, m) THEN q.x - pushX ELSE q.x,
                 !.y = IF Near(q, m) THEN q.y - pushY ELSE q.y,
                 !.radius = q.radius + Round((targetRadius - q.radius) * radiusEase, 100)]

update(p, m) ==
    LET q == lerp(p)
        dx == m[1] - q.x
        dy == m[2] - q.y
        dist == Sqrt(dx * dx + dy * dy)
        \* influence = gap / mouseInfluenceRadius
        gap == mouseInfluenceRadius - dist
        targetRadius ==
            IF Near(q, m)
            THEN Round(q.baseRadius * (10 * mouseInfluenceRadius + gap * (mouseScaleMultiplier - 10)),
                       10 * mouseInfluenceRadius)
            ELSE q.baseRadius
        \* Math.cos(angle) * repulsionForce, with atan2(0, 0) = 0
        pushX == IF dist = 0 THEN mouseRepulsionForce
                 ELSE Round(dx * mouseRepulsionForce * gap, dist * mouseInfluenceRadius)
        pushY == IF dist = 0 THEN 0
                 ELSE Round(dy * mouseRepulsionForce * gap, dist * mouseInfluenceRadius)
    IN [q EXCEPT !.targetRadius = targetRadius,
                 !.glowIntensity =
                     IF Near(q, m)
                     THEN Max(q.glowIntensity, Round(800 * gap, mouseInfluenceRadius))
                     ELSE Round(q.glowIntensity * 9, 10),
                 !.x = IF Near(q, m) THEN q.x - pushX ELSE q.x,
                 !.y = IF Near(q, m) THEN q.y - pushY ELSE q.y,
                 !.radius = q.radius + Round((targetRadius - q.radius) * radiusEase, 100)]

\* the target updateTargets gives one particle
target(p, m, at, jitter) ==
    CASE m = "spectrum" ->
            [p EXCEPT !.tx = 50 + Round(p.h * (width - 100), 360) + jitter,
                      !.ty = 50 + Round((100 - p.l) * (height - 100), 100)]
      [] m = "wheel" ->
            [p EXCEPT !.tx = cx + Cos(p.h) * Round(p.s * 35 * Min(width, height), 10000),
                      !.ty = cy + Sin(p.h) * Round(p.s * 35 * Min(width, height), 10000)]
      [] m = "cylinder" ->
            [p EXCEPT !.tx = cx + Cos(p.h) * 225,
                      !.ty = Round(height * 2, 10) + Round((100 - p.l) * height * 6, 1000)
                                 + Sin(p.h) * 40]
      [] m = "sync" ->
            [p EXCEPT !.tx = at[1] + Cos(p.h) * p.s,
                      !.ty = at[2] + Sin(p.h) * p.s]

updateTargets(ps, m, at, jitter) ==
    [i \in DOMAIN ps |-> target(ps[i], m, at, jitter[i])]

\* setMode without the jump to the new targets
snap_missing(ps, previousMode, m) == ps

\* the jump of setMode: leaving sync, each particle is put on its new target
snap(ps, previousMode, m) ==
    IF previousMode = "sync" /\ m # "sync"
    THEN [i \in DOMAIN ps |-> [ps[i] EXCEPT !.x = ps[i].tx, !.y = ps[i].ty]]
    ELSE ps

syncWithGalaxy(ps, colors) ==
    IF Len(colors) > 0
    THEN [i \in DOMAIN ps |->
             LET color == colors[((i - 1) % Len(colors)) + 1]
             IN [ps[i] EXCEPT !.h = color.h, !.s = color.s, !.l = color.l]]
    ELSE ps

\* ---- the methods of the layer; each call is counted ----

Called ==
    /\ calls < MaxCalls
    /\ calls' = calls + 1

setMode(m, jitter) ==
    LET previousMode == currentMode
    IN /\ Called
       /\ currentMode' = m
       /\ particles' = snap(updateTargets(particles, m, mouse, jitter), previousMode, m)
       /\ snapped' = (previousMode = "sync" /\ m # "sync")
       /\ tick' = "none"
       /\ before' = <<>>
       /\ UNCHANGED <<mouse, isAnimating, galaxyColors, listeners>>

ParticleLayer_onMouseMove(x, y, jitter) ==
    /\ Called
    /\ UNCHANGED listeners
    /\ mouse' = <<x, y>>
    /\ particles' = IF currentMode = "sync"
                    THEN updateTargets(particles, currentMode, <<x, y>>, jitter)
                    ELSE particles
    /\ tick' = "none"
    /\ before' = <<>>
    /\ UNCHANGED <<currentMode, isAnimating, galaxyColors, snapped>>

ParticleLayer_animate ==
    /\ Called
    /\ UNCHANGED listeners
    /\ particles' = IF isAnimating
                    THEN [i \in DOMAIN particles |-> update(particles[i], mouse)]
                    ELSE particles
    /\ tick' = IF snapped THEN "snap" ELSE "frame"
    /\ before' = particles
    /\ snapped' = FALSE
    /\ UNCHANGED <<mouse, currentMode, isAnimating, galaxyColors>>

ParticleLayer_resize(jitter) ==
    /\ Called
    /\ UNCHANGED listeners
    /\ particles' = updateTargets(particles, currentMode, mouse, jitter)
    /\ snapped' = FALSE
    /\ tick' = "none"
    /\ before' = <<>>
    /\ UNCHANGED <<mouse, currentMode, isAnimating, galaxyColors>>

\* the layer's handler of 'galaxy:colorUpdate'
onColorUpdate(colors) ==
    /\ Called
    /\ UNCHANGED listeners
    /\ galaxyColors' = colors
    /\ particles' = IF currentMode = "sync" THEN syncWithGalaxy(particles, colors)
                    ELSE particles
    /\ tick' = "none"
    /\ before' = <<>>
    /\ UNCHANGED <<mouse, currentMode, isAnimating, snapped>>

ParticleLayer_dispose ==
    /\ Called
    /\ UNCHANGED listeners
    /\ isAnimating' = FALSE
    /\ particles' = <<>>
    /\ tick' = "none"
    /\ before' = <<>>
    /\ UNCHANGED <<mouse, currentMode, galaxyColors, snapped>>

\* the constructor: resize(), createParticles() with its updateTargets()
NewParticleLayer ==
    /\ \E start \in Starts, jitter \in Jitter :
          particles = updateTargets([i \in DOMAIN Seeds |-> Particle(Seeds[i], start[i])],
                                    "spectrum", Offscreen, jitter)
    /\ mouse = Offscreen
    /\ currentMode = "spectrum"
    /\ isAnimating = TRUE
    /\ galaxyColors = <<>>
    /\ snapped = FALSE
    /\ tick = "none"
    /\ before = <<>>
    /\ calls = 0
    /\ listeners = {"resize"}

\* no particle layer
NoParticleLayer ==
    /\ particles = <<>>
    /\ mouse = Offscreen
    /\ currentMode = "spectrum"
    /\ isAnimating = FALSE
    /\ galaxyColors = <<>>
    /\ snapped = FALSE
    /\ tick = "none"
    /\ before = <<>>
    /\ calls = 0
    /\ listeners = {}

\* ---- a ParticleLayer whose methods are called in any order ----

notParticles ==
    <<busVars, envVars, galaxyVars, blendVars, easeVars, colorVars, cloudVars, paletteVars,
      appVars>>

SetMode(m) ==
    \E jitter \in (IF m = "spectrum" THEN Jitter ELSE {[i \in DOMAIN Seeds |-> 0]}) :
       setMode(m, jitter) /\ UNCHANGED notParticles

PointerMove(x, y) ==
    ParticleLayer_onMouseMove(x, y, [i \in DOMAIN Seeds |-> 0]) /\ UNCHANGED notParticles

ParticleFrame == ParticleLayer_animate /\ UNCHANGED notParticles

\* the window is resized: the listener of init() calls resize()
Resize ==
    /\ "resize" \in listeners
    /\ \E jitter \in (IF currentMode = "spectrum" THEN Jitter ELSE {[i \in DOMAIN Seeds |-> 0]}) :
          ParticleLayer_resize(jitter) /\ UNCHANGED notParticles

ColorUpdate(colors) == onColorUpdate(colors) /\ UNCHANGED notParticles

ParticleDispose == ParticleLayer_dispose /\ UNCHANGED notParticles

-----------------------------------------------------------------------------
(***************************************************************************)
(* The point cloud of GalaxyLayer: what startBigBang, the frames, the      *)
(* pointer and the clicks do to the attributes of the points.  Coordinates *)
(* are in tenths of a unit of the scene and colour channels in thousandths;*)
(* each result is rounded to the nearest of these.  The clock of the layer *)
(* (THREE.Clock) reads the time since the page's first frame, in tenths of *)
(* a second.                                                               *)
(***************************************************************************)

MaxCloudCalls == 5

\* the radius of a click's shockwave and its push at the centre: 10 and 5 units
shockRadius == 100

shockForce == 50

\* config.mouseInfluenceRadius and config.mouseForce: 3 and 2 units
pointerRadius == 30

pointerForce == 20

\* the radius of the region that a click samples: 5 units
sampleRadius == 50

\* config.color1 '#00f3ff' and config.color2 '#bc13fe'
color1 == <<0, 953, 1000>>

color2 == <<737, 75, 996>>

\* the largest whole r in lo .. hi with r * r <= n
RECURSIVE Root(_, _, _)
Root(n, lo, hi) ==
    IF lo >= hi
    THEN lo
    ELSE LET mid == (lo + hi + 1) \div 2
         IN IF mid * mid <= n THEN Root(n, mid, hi) ELSE Root(n, lo, mid - 1)

\* Math.sqrt(dx * dx + dy * dy), to the nearest tenth
Hypot(dx, dy) == Round(Root(4 * (dx * dx + dy * dy), 0, 2 * (Abs(dx) + Abs(dy))), 2)

\* Math.sin of an angle in hundredths of a radian, in hundredths: the angle is
\* brought into one turn (628), and on a half turn x the sine is, to a hundredth,
\* 16 x (pi - x) / (5 pi^2 - 4 x (pi - x))
HalfSine(x) == Round(1600 * x * (314 - x), 5 * 314 * 314 - 4 * x * (314 - x))

sin(a) ==
    LET r == a % 628
    IN IF r <= 314 THEN HalfSine(r) ELSE 0 - HalfSine(r - 314)

\* THREE.MathUtils.lerp(x, y, t) with t = n / d
mix(x, y, n, d) == x + Round((y - x) * n, d)

\* positions[i3] += Math.cos(angle) * force * strength, the same for the sine:
\* angle = Math.atan2(dy, dx), which is 0 when both are 0, and
\* force = (radius - dist) / radius
pushed(p, dx, dy, radius, strength) ==
    LET dist == Hypot(dx, dy)
    IN IF dist = 0
       THEN <<p[1] + strength, p[2], p[3]>>
       ELSE <<p[1] + Round(dx * (radius - dist) * strength, dist * radius),
              p[2] + Round(dy * (radius - dist) * strength, dist * radius),
              p[3]>>

\* the loop of onClick over the points: the shockwave of a click at (clickX, clickY)
shockwave(ps, clickX, clickY) ==
    [i \in DOMAIN ps |->
        LET dx == ps[i][1] - clickX
            dy == ps[i][2] - clickY
        IN IF dx * dx + dy * dy < shockRadius * shockRadius
           THEN pushed(ps[i], dx, dy, shockRadius, shockForce)
           ELSE ps[i]]

\* Math.round(colors[i3] * 255)
byte(c) == Round(c * 255, 1000)

\* sampleColorsInRegion(x, y, radius): r, g, b of the points within the radius, at
\* most 50 of them (hex and hsl of a sample are functions of these three)
RECURSIVE inRegion(_, _, _, _, _, _)
inRegion(ps, cs, x, y, radius, i) ==
    IF i > Len(ps)
    THEN <<>>
    ELSE LET dx == ps[i][1] - x
             dy == ps[i][2] - y
             rest == inRegion(ps, cs, x, y, radius, i + 1)
         IN IF dx * dx + dy * dy < radius * radius
            THEN <<[r |-> byte(cs[i][1]), g |-> byte(cs[i][2]), b |-> byte(cs[i][3])]>>
                    \o rest
            ELSE rest

sampleColorsInRegion(ps, cs, x, y, radius) ==
    LET found == inRegion(ps, cs, x, y, radius, 1)
    IN SubSeq(found, 1, Min(Len(found), 50))

\* the place of a point in the explosion: velocity * elapsed * (1 - elapsed * 0.1)
exploded(v, elapsed) ==
    [k \in 1 .. 3 |-> Round(v[k] * elapsed * (100 - elapsed), 1000)]

\* tempColor.copy(color2).lerp(color1, radius / 20), radius the distance of the
\* point's place in the spiral from the centre
mixedColor(o) ==
    LET radius == Root(o[1] * o[1] + o[2] * o[2] + o[3] * o[3], 0,
                       Abs(o[1]) + Abs(o[2]) + Abs(o[3]))
    IN [k \in 1 .. 3 |-> mix(color2[k], color1[k], radius, 200)]

\* the loop of the explosion over the points, for the elapsed time and the blend
\* fraction of the frame: nothing is written once the fraction is 1
explode_into_spiral(elapsed, progress) ==
    /\ positions' = positions
    /\ pointColors' = pointColors
    /\ sizes' = sizes
    /\ velocities' = velocities
    /\ originalPositions' =
          [i \in DOMAIN positions |->
              IF progress >= One
              THEN originalPositions[i]
              ELSE exploded(velocities[i], elapsed)]

explode(elapsed, progress) ==
    /\ positions' =
          [i \in DOMAIN positions |->
              IF progress >= One
              THEN positions[i]
              ELSE LET e == exploded(velocities[i], elapsed)
                   IN IF progress > 0
                      THEN [k \in 1 .. 3 |-> mix(e[k], originalPositions[i][k], progress, One)]
                      ELSE e]
    /\ pointColors' =
          [i \in DOMAIN positions |->
              IF progress > 0 /\ progress < One
              THEN LET mixed == mixedColor(originalPositions[i])
                   IN [k \in 1 .. 3 |-> mix(pointColors[i][k], mixed[k], 5, 100)]
              ELSE pointColors[i]]
    /\ UNCHANGED <<sizes, originalPositions, velocities>>

\* the loop of a frame of the complete galaxy over the points: each floats on a
\* sine of the time, and the pointer pushes it away or it drifts back to its place
float(p, o, m, time) ==
    LET y == o[2] + Round(sin((time + o[1]) * 10), 20)
        dx == p[1] - m[1]
        dy == y + m[2]
    IN IF dx * dx + dy * dy < pointerRadius * pointerRadius
       THEN pushed(<<p[1], y, p[3]>>, dx, dy, pointerRadius, pointerForce)
       ELSE <<mix(p[1], o[1], 5, 100), y, p[3]>>

\* what animate() does to the cloud, after the phase of the frame
animateCloud ==
    IF bigBangState = "singularity"
    THEN UNCHANGED <<positions, pointColors, sizes, originalPositions, velocities,
                     galaxyMouse>>
    ELSE IF bigBangState = "explosion"
    THEN /\ explode(now - bigBangStartTime, formationProgress(now - bigBangStartTime))
         /\ UNCHANGED galaxyMouse
    ELSE \E m \in {<<mix(galaxyMouse[1], 10 * targetMouse[1], 1, 10),
                     mix(galaxyMouse[2], 10 * targetMouse[2], 1, 10)>>} :
            /\ galaxyMouse' = m
            /\ positions' = [i \in DOMAIN positions |->
                                float(positions[i], originalPositions[i], m, now)]
            /\ UNCHANGED <<pointColors, sizes, originalPositions, velocities>>

\* what onClick(x, y) does to the cloud: the region is sampled, then the shockwave
clickCloud(x, y) ==
    LET clickX == (x - windowHalfX) \div 2
        clickY == 0 - ((y - windowHalfY) \div 2)
    IN /\ sampled' = sampleColorsInRegion(positions, pointColors, clickX, clickY, sampleRadius)
       /\ positions' = shockwave(positions, clickX, clickY)
       /\ UNCHANGED <<pointColors, sizes, originalPositions, velocities, galaxyMouse>>

CloudCalled ==
    /\ cloudCalls < MaxCloudCalls
    /\ cloudCalls' = cloudCalls + 1

notGalaxy == <<busVars, blendVars, particleVars, easeVars, colorVars, paletteVars, appVars>>

\* ---- a GalaxyLayer with its points, whose methods are called in any order ----

CloudStartBigBang ==
    /\ CloudCalled
    /\ startBigBang
    /\ UNCHANGED <<positions, pointColors, sizes, originalPositions, velocities, galaxyMouse,
                   sampled>>
    /\ UNCHANGED <<envVars, notGalaxy>>

CloudAnimate ==
    /\ CloudCalled
    /\ animate
    /\ animateCloud
    /\ UNCHANGED <<sampled, envVars, notGalaxy>>

CloudOnMouseMove(x, y) ==
    /\ CloudCalled
    /\ onMouseMove(x, y)
    /\ UNCHANGED <<positions, pointColors, sizes, originalPositions, velocities, galaxyMouse,
                   sampled>>
    /\ UNCHANGED <<envVars, notGalaxy>>

CloudOnClick(x, y) ==
    /\ CloudCalled
    /\ BagCardinality(timers) < MaxPending
    /\ onClick(x, y)
    /\ clickCloud(x, y)
    /\ UNCHANGED <<now, notGalaxy>>

-----------------------------------------------------------------------------
(***************************************************************************)
(* The growth of a cube as a function of the elapsed time                  *)
(***************************************************************************)

GrowthElapsed == 0 .. MaxGrowthElapsed

NoGrowth ==
    /\ easeIn = <<0, 0>>
    /\ easeOut = <<>>

\* a cube that started to grow at 0 draws a frame at each of the two times
Grow ==
    /\ easeOut = <<>>
    /\ easeOut' = [i \in 1 .. 2 |->
                      updateGrowthAnimation(startGrowthAnimation(NewColorCube, 0), easeIn[i])]
    /\ UNCHANGED <<easeIn, blendVars, particleVars, colorVars, cloudVars, busVars, envVars,
                   galaxyVars, paletteVars, appVars>>

-----------------------------------------------------------------------------
(***************************************************************************)
(* ColorUtils.rgbToHsl and hslToRgb.  A number is the fraction <<n, d>> in *)
(* lowest terms with d > 0, so the arithmetic is that of the code without  *)
(* the rounding of a double.                                               *)
(***************************************************************************)

\* the values a channel takes
Channels == {0, 1, 2, 51, 64, 127, 128, 129, 200, 253, 254, 255}

RECURSIVE GCD(_, _)
GCD(a, b) == IF b = 0 THEN a ELSE GCD(b, a % b)

\* n / d, for d > 0
Q(n, d) == LET g == GCD(Abs(n), d) IN <<n \div g, d \div g>>

Num(n) == <<n, 1>>

\* the sums, products and comparisons divide by common factors before they multiply
Plus(a, b) ==
    LET g == GCD(a[2], b[2])
    IN Q(a[1] * (b[2] \div g) + b[1] * (a[2] \div g), a[2] * (b[2] \div g))

Minus(a, b) == Plus(a, <<0 - b[1], b[2]>>)

Times(a, b) ==
    LET g == GCD(Abs(a[1]), b[2])
        k == GCD(Abs(b[1]), a[2])
    IN Q((a[1] \div g) * (b[1] \div k), (a[2] \div k) * (b[2] \div g))

\* a / b, for b # 0
Over(a, b) ==
    IF b[1] > 0 THEN Times(a, <<b[2], b[1]>>)
    ELSE Times(a, <<0 - b[2], 0 - b[1]>>)

Less(a, b) ==
    LET g == GCD(a[2], b[2])
    IN a[1] * (b[2] \div g) < b[1] * (a[2] \div g)

MaxQ(a, b) == IF Less(a, b) THEN b ELSE a

MinQ(a, b) == IF Less(a, b) THEN a ELSE b

\* Math.round
RoundQ(a) == (2 * a[1] + a[2]) \div (2 * a[2])

rgbToHsl(r0, g0, b0) ==
    LET r == Q(r0, 255)
        g == Q(g0, 255)
        b == Q(b0, 255)
        max == MaxQ(MaxQ(r, g), b)
        min == MinQ(MinQ(r, g), b)
        l == Over(Plus(max, min), Num(2))
        d == Minus(max, min)
        s == IF max = min THEN Num(0)
             ELSE IF Less(Q(1, 2), l) THEN Over(d, Minus(Minus(Num(2), max), min))
             ELSE Over(d, Plus(max, min))
        h == IF max = min THEN Num(0)
             ELSE IF max = r
                  THEN Over(Plus(Over(Minus(g, b), d), IF Less(g, b) THEN Num(6) ELSE Num(0)),
                            Num(6))
             ELSE IF max = g THEN Over(Plus(Over(Minus(b, r), d), Num(2)), Num(6))
             ELSE Over(Plus(Over(Minus(r, g), d), Num(4)), Num(6))
    IN [h |-> Times(h, Num(360)), s |-> Times(s, Num(100)), l |-> Times(l, Num(100))]

\* hue2rgb without the wrap of t into 0 .. 1
hue2rgb_unwrapped(p, q, t) ==
    IF Less(t, Q(1, 6)) THEN Plus(p, Times(Times(Minus(q, p), Num(6)), t))
    ELSE IF Less(t, Q(1, 2)) THEN q
    ELSE IF Less(t, Q(2, 3)) THEN Plus(p, Times(Times(Minus(q, p), Minus(Q(2, 3), t)), Num(6)))
    ELSE p

hue2rgb(p, q, t) ==
    LET t1 == IF Less(t, Num(0)) THEN Plus(t, Num(1)) ELSE t
        t2 == IF Less(Num(1), t1) THEN Minus(t1, Num(1)) ELSE t1
    IN IF Less(t2, Q(1, 6)) THEN Plus(p, Times(Times(Minus(q, p), Num(6)), t2))
       ELSE IF Less(t2, Q(1, 2)) THEN q
       ELSE IF Less(t2, Q(2, 3))
            THEN Plus(p, Times(Times(Minus(q, p), Minus(Q(2, 3), t2)), Num(6)))
       ELSE p

hslToRgb(h0, s0, l0) ==
    LET h == Over(h0, Num(360))
        s == Over(s0, Num(100))
        l == Over(l0, Num(100))
        q == IF Less(l, Q(1, 2)) THEN Times(l, Plus(Num(1), s))
             ELSE Minus(Plus(l, s), Times(l, s))
        p == Minus(Times(Num(2), l), q)
        r == IF s = Num(0) THEN l ELSE hue2rgb(p, q, Plus(h, Q(1, 3)))
        g == IF s = Num(0) THEN l ELSE hue2rgb(p, q, h)
        b == IF s = Num(0) THEN l ELSE hue2rgb(p, q, Minus(h, Q(1, 3)))
    IN [r |-> RoundQ(Times(r, Num(255))),
        g |-> RoundQ(Times(g, Num(255))),
        b |-> RoundQ(Times(b, Num(255)))]

NoConversion ==
    /\ colorIn = <<0, 0, 0>>
    /\ colorOut = <<>>

\* the triple is converted to HSL and that back to RGB
Convert ==
    /\ colorOut = <<>>
    /\ \E hsl \in {rgbToHsl(colorIn[1], colorIn[2], colorIn[3])} :
          colorOut' = <<hsl, hslToRgb(hsl.h, hsl.s, hsl.l)>>
    /\ UNCHANGED <<colorIn, blendVars, particleVars, easeVars, cloudVars, busVars, envVars,
                   galaxyVars, paletteVars, appVars>>

-----------------------------------------------------------------------------
(***************************************************************************)
(* Specifications                                                          *)
(***************************************************************************)

\* the bus alone, called in any order
InitBus == NewEventBus /\ InitEnv /\ NewGalaxyLayer /\ NoBlend /\ NoParticleLayer /\ NoGrowth /\ NoConversion /\ NewPalette /\ NewCosmicLabApp

NextBus ==
    \/ \E event \in EventNames, callback \in Callbacks : CallOn(event, callback)
    \/ \E event \in EventNames, callback \in Callbacks : CallOff(event, callback)
    \/ \E event \in EventNames : CallEmit(event, "d1")
    \/ CallClear
    \/ Dispatch
    \/ Return

SpecBus == InitBus /\ [][NextBus]_vars

\* a GalaxyLayer alone, called in any order
InitGalaxy == NewEventBus /\ InitEnv /\ NewGalaxyLayer /\ NoBlend /\ NoParticleLayer /\ NoGrowth /\ NoConversion /\ NewPalette /\ NewCosmicLabApp

NextGalaxy ==
    \/ StartBigBang
    \/ Animate
    \/ \E p \in Pointers : OnClick(p[1], p[2])
    \/ \E p \in Pointers : OnMouseMove(p[1], p[2])
    \/ BloomTimeout
    \/ Clock

SpecGalaxy == InitGalaxy /\ [][NextGalaxy]_vars

\* a GalaxyLayer and its points, called in any order as the seconds pass
NextCloud ==
    \/ CloudStartBigBang
    \/ CloudAnimate
    \/ \E p \in Pointers : CloudOnClick(p[1], p[2])
    \/ \E p \in Pointers : CloudOnMouseMove(p[1], p[2])
    \/ BloomTimeout
    \/ AppClock

SpecCloud == InitGalaxy /\ [][NextCloud]_vars

\* the blend fraction of two elapsed times
InitBlend ==
    /\ NewEventBus /\ InitEnv /\ NewGalaxyLayer /\ NoParticleLayer /\ NoGrowth /\ NoConversion /\ NewPalette /\ NewCosmicLabApp
    /\ blendIn \in Elapsed \X Elapsed
    /\ blendOut = <<>>

NextBlend == Blend

SpecBlend == InitBlend /\ [][NextBlend]_vars

\* the palette of a page that opens on any stored text
InitPalette ==
    /\ NewEventBus /\ InitEnv /\ NewGalaxyLayer /\ NoBlend /\ NoParticleLayer /\ NoGrowth /\ NoConversion /\ NewCosmicLabApp
    /\ palette = <<>>
    /\ localStorage \in Storages
    /\ appInit = "new"
    /\ adds = 0
    /\ unsaved = FALSE

NextPalette ==
    \/ LoadPalette
    \/ \E color \in Colors, full \in BOOLEAN : AddToPalette(color, full)

SpecPalette == InitPalette /\ [][NextPalette]_vars

\* what the storage holds when the application opens: nothing, or null
AppStorages == {<<>>, [k \in {PaletteKey} |-> <<"null">>]}

\* the application: the page opens, time passes, frames are drawn, the pointer moves
\* and clicks, keys are pressed, and the page may dispose the application; the
\* writes of the storage succeed here (SpecPalette has the ones that throw)
InitApp ==
    /\ NewEventBus /\ InitEnv /\ NewGalaxyLayer /\ NoBlend /\ NoParticleLayer /\ NoGrowth /\ NoConversion /\ NewCosmicLabApp
    /\ palette = <<>>
    /\ localStorage \in AppStorages
    /\ appInit = "new"
    /\ adds = 0
    /\ unsaved = FALSE

NextApp ==
    \/ AppInit
    \/ Frame
    \/ \E p \in Pointers : MouseMove(p[1], p[2])
    \/ LoadingTimeout
    \/ BangTimeout
    \/ GrowthTimeout
    \/ CubeBackgroundFrame
    \/ ColorCubeFrame
    \/ \E p \in Pointers, colors \in Samples : Click(p[1], p[2], colors, FALSE)
    \/ BloomTimeout
    \/ Escape
    \/ CloseModal
    \/ Dispose
    \/ AppClock

SpecApp == InitApp /\ [][NextApp]_vars

\* the application with its modal opened and closed repeatedly and with the colour
\* sampling: the page opens, time passes, the timers of init() fire, the pointer
\* clicks, keys are pressed, the modal is closed, and the page may dispose the
\* application.  The frames of the controller and of the background cube, which
\* neither read nor write the mode and the modal's cube, are left to SpecApp
NextAnalyze ==
    \/ AppInit
    \/ LoadingTimeout
    \/ BangTimeout
    \/ ColorCubeFrame
    \/ \E p \in Pointers, colors \in Samples : ClickAgain(p[1], p[2], colors)
    \/ BloomTimeout
    \/ SampleGalaxyColors
    \/ Escape
    \/ CloseModal
    \/ Dispose
    \/ AnalyzeClock

SpecAnalyze == InitApp /\ [][NextAnalyze]_vars

\* a ColorCube alone, called in any order as time passes
InitCube ==
    /\ NewEventBus /\ InitEnv /\ NewGalaxyLayer /\ NoBlend /\ NoParticleLayer /\ NoGrowth
    /\ NoConversion /\ NewPalette /\ NewCosmicLabApp

NextCube ==
    \/ \E colors \in {0, SampleCount} : ShowCube(colors)
    \/ \E answer \in Answers, colors \in {0, SampleCount} : Fetched(answer, colors)
    \/ HideCube
    \/ CubeFrame
    \/ Clock

SpecCube == InitCube /\ [][NextCube]_vars

\* the browser runs a pending frame callback, and time goes on
SpecCubeFair == SpecCube /\ WF_vars(CubeFrame) /\ WF_vars(Clock)

\* the growth of a cube at two elapsed times
InitGrowth ==
    /\ NewEventBus /\ InitEnv /\ NewGalaxyLayer /\ NoBlend /\ NoParticleLayer /\ NoConversion
    /\ NewPalette /\ NewCosmicLabApp
    /\ easeIn \in GrowthElapsed \X GrowthElapsed
    /\ easeOut = <<>>

NextGrowth == Grow

SpecGrowth == InitGrowth /\ [][NextGrowth]_vars

\* the conversion of one RGB triple to HSL and back
InitConversion ==
    /\ NewEventBus /\ InitEnv /\ NewGalaxyLayer /\ NoBlend /\ NoParticleLayer /\ NoGrowth
    /\ NewPalette /\ NewCosmicLabApp
    /\ colorIn \in Channels \X Channels \X Channels
    /\ colorOut = <<>>

NextConversion == Convert

SpecConversion == InitConversion /\ [][NextConversion]_vars

\* a ParticleLayer alone, called in any order
InitParticles ==
    /\ NewEventBus /\ InitEnv /\ NewGalaxyLayer /\ NoBlend /\ NewPalette /\ NewCosmicLabApp
    /\ NoGrowth /\ NoConversion
    /\ NewParticleLayer

NextParticles ==
    \/ \E m \in Modes : SetMode(m)
    \/ \E p \in ParticlePointers : PointerMove(p[1], p[2])
    \/ ParticleFrame
    \/ Resize
    \/ \E colors \in ColorUpdates : ColorUpdate(colors)
    \/ ParticleDispose

SpecParticles == InitParticles /\ [][NextParticles]_vars

-----------------------------------------------------------------------------
(***************************************************************************)
(* Event bus: claims                                                       *)
(***************************************************************************)

Range(seq) == {seq[i] : i \in 1 .. Len(seq)}

\* the running forEach has so far called, in order and once each, the first k of the
\* callbacks that were subscribed to its event when emit was called, each with emit's
\* payload, and it set out to call all of them
FrameInOrder(fr) ==
    /\ fr.len = Len(fr.expect)
    /\ fr.k <= fr.len
    /\ fr.called = [i \in 1 .. fr.k |-> <<fr.expect[i], fr.data>>]

\* the step is a call of emit(event, ...), by the program or by the running handler
EmitStep(event) ==
    \/ \E data \in Data : CallEmit(event, data)
    \/ /\ stack # <<>>
       /\ stack[Len(stack)].k < stack[Len(stack)].len
       /\ Body(heap[stack[Len(stack)].arr][stack[Len(stack)].k + 1]).op = "emit"
       /\ Body(heap[stack[Len(stack)].arr][stack[Len(stack)].k + 1]).event = event
       /\ Dispatch

\* the step is a call of off(event, callback), by the program or by the running handler
OffStep(event, callback) ==
    \/ CallOff(event, callback)
    \/ /\ stack # <<>>
       /\ stack[Len(stack)].k < stack[Len(stack)].len
       /\ Body(heap[stack[Len(stack)].arr][stack[Len(stack)].k + 1]) =
              [op |-> "off", event |-> event, callback |-> callback]
       /\ Dispatch

\* C1: emit(e, d) calls every handler subscribed to e when emit is called, once per
\* subscription, in the order of the on() calls, each with the payload d, and no
\* handler of another event; emit returns only when all of them have been called.
\* This holds whatever on/off/emit/clear calls came before.
C1_EmitCallsSubscribersInOrder ==
    [][/\ \A i \in 1 .. Len(stack') : FrameInOrder(stack'[i])
       /\ Len(stack') < Len(stack) /\ thrown' = "no" =>
             /\ stack[Len(stack)].k = Len(stack[Len(stack)].expect)
             /\ FrameInOrder(stack[Len(stack)])]_vars

\* C1 witness: emit(e, d1) has called both subscribers of e, h1 before h2, each with
\* d1, and not the handler subscribed to f
C1_Witness ==
    /\ Len(stack) = 1
    /\ stack[1].event = "e"
    /\ stack[1].k = 2 /\ stack[1].len = 2
    /\ stack[1].called = << <<"h1", "d1">>, <<"h2", "d1">> >>
    /\ registry["f"] = <<"h1">>

\* C2: off(e, h) removes every subscription of h to e and nothing else: the other
\* handlers of e keep their order, the other events keep their lists (also h's),
\* off for an unknown event or a handler that is not subscribed changes nothing;
\* and no emit called afterwards calls h (a forEach calls only what was subscribed
\* when its emit was called).
C2_OffRemovesExactlyTheHandler ==
    [][/\ \A event \in EventNames, callback \in Callbacks :
             \* (a step that changes no list, for a handler that has no subscription
             \* to remove, satisfies the claim whichever call it is)
             /\ \/ \E n \in OwnNames :
                      Handlers(events', heap', n) # Handlers(events, heap, n)
                \/ event \in OwnNames
                      /\ callback \in Range(Handlers(events, heap, event))
             /\ OffStep(event, callback)
             =>
                /\ \A n \in OwnNames \ {event} :
                      Handlers(events', heap', n) = Handlers(events, heap, n)
                /\ event \in OwnNames =>
                      /\ callback \notin Range(Handlers(events', heap', event))
                      /\ Handlers(events', heap', event) =
                            SelectSeq(Handlers(events, heap, event),
                                      LAMBDA cb : cb # callback)
                /\ (event \notin OwnNames
                      \/ callback \notin Range(Handlers(events, heap, event))) =>
                      \A n \in OwnNames :
                         Handlers(events', heap', n) = Handlers(events, heap, n)
       /\ \A n \in OwnNames : registry'[n] = Handlers(events', heap', n)
       /\ \A i \in 1 .. Len(stack') : \A j \in 1 .. Len(stack'[i].called) :
             stack'[i].called[j][1] \in Range(stack'[i].expect)]_vars

\* C2 witness: an off(e, .) has just removed a subscription from a list of three, and
\* h1 and hEmit, which it left, are in their order
C2_Witness ==
    /\ offActed
    /\ Handlers(events, heap, "e") = <<"h1", "hEmit">>

\* C3 (as claimed): after clear() and until the next on() registers a handler, an emit
\* of any event calls no handler, raises no error and leaves the bus as it is.
C3_EmitAfterClearIsSilent ==
    [][/\ cleared' => \A n \in OwnNames : Handlers(events', heap', n) = <<>>
       /\ \A event \in EventNames :
             cleared /\ EmitStep(event) =>
                /\ thrown' = "no"
                /\ Len(stack') <= Len(stack)
                /\ events' = events
                /\ registry' = registry]_vars

\* C4: a handler of e that publishes f while it is called: the handlers of f are all
\* called, in order, before the forEach of e calls its next handler; the forEach of e
\* then calls each of its remaining handlers once, in order; nothing is thrown.
C4_ReentrantEmitKeepsIteration ==
    [][/\ \A i \in 1 .. Len(stack') : FrameInOrder(stack'[i])
       \* a forEach that begins is the innermost one, above the one whose handler called
       /\ Len(stack') > Len(stack) =>
             /\ stack'[Len(stack')].k = 0
             /\ \A i \in 1 .. Len(stack) : stack'[i].event = stack[i].event
       \* only the innermost forEach calls handlers
       /\ \A i \in 1 .. Len(stack) :
             (i <= Len(stack') /\ stack'[i].k # stack[i].k) => i = Len(stack)
       \* a forEach ends only when it has called all it set out to call
       /\ Len(stack') < Len(stack) =>
             /\ Len(stack') = Len(stack) - 1
             /\ stack[Len(stack)].k = Len(stack[Len(stack)].expect)
       /\ stack # <<>> => thrown' = "no"]_vars

\* C4 witness: the forEach of e called hEmit, which published f; f's handler h2 was
\* called meanwhile; the forEach of e then called its second handler h1
C4_Witness ==
    /\ Len(stack) = 1
    /\ stack[1].event = "e"
    /\ stack[1].called = << <<"hEmit", "d1">>, <<"h1", "d1">> >>
    /\ registry["e"] = <<"hEmit", "h1">>
    /\ registry["f"] = <<"h2">>

\* the running handler calls the bus, and nothing is thrown
HandlerCalls(op) ==
    /\ stack # <<>>
    /\ stack[Len(stack)].k < stack[Len(stack)].len
    /\ Body(heap[stack[Len(stack)].arr][stack[Len(stack)].k + 1]).op = op
    /\ Dispatch
    /\ thrown' = "no"

\* C27: a dispatch works on the handlers of its event as they were subscribed when
\* emit was called: an on(), off() or clear() by a running handler changes what the
\* later emits call and leaves alone what the running dispatches have set out to call;
\* so a handler added meanwhile is not called in the dispatch, and one removed
\* meanwhile and not yet reached is still called once in it.
C27_DispatchOnSnapshot ==
    [][/\ \A i \in 1 .. Len(stack') : FrameInOrder(stack'[i])
       /\ \A op \in {"on", "off", "clear"} :
             HandlerCalls(op) =>
                /\ Len(stack') = Len(stack)
                /\ \A i \in 1 .. Len(stack) :
                      /\ stack'[i].expect = stack[i].expect
                      /\ stack'[i].len = stack[i].len
                /\ \A n \in OwnNames : registry'[n] = Handlers(events', heap', n)
       /\ HandlerCalls("on") =>
             Len(registry'["e"]) = Len(registry["e"]) + 1
       /\ HandlerCalls("off") =>
             "h2" \notin Range(registry'["e"])
       /\ HandlerCalls("clear") =>
             \A n \in OwnNames : registry'[n] = <<>>
       /\ Len(stack') < Len(stack) /\ thrown' = "no" =>
             stack[Len(stack)].k = Len(stack[Len(stack)].expect)]_vars

\* the forEach of e called hOff, which removed h2, and then called h2, which is no
\* longer subscribed
C27_Witness ==
    /\ Len(stack) = 1
    /\ stack[1].event = "e"
    /\ stack[1].called = << <<"hOff", "d1">>, <<"h2", "d1">> >>
    /\ registry["e"] = <<"hOff">>

\* the forEach of e called hOn, which subscribed h2, and has ended without calling h2
C27_AddedIsNotCalled ==
    /\ Len(stack) = 1
    /\ stack[1].event = "e"
    /\ stack[1].k = stack[1].len
    /\ stack[1].called = << <<"hOn", "d1">>, <<"h1", "d1">> >>
    /\ registry["e"] = <<"hOn", "h1", "h2">>

-----------------------------------------------------------------------------
(***************************************************************************)
(* GalaxyLayer: claims                                                     *)
(***************************************************************************)

PhaseRank(phase) ==
    CASE phase = "singularity" -> 1
      [] phase = "explosion" -> 2
      [] phase = "complete" -> 3

\* C5: whatever the order of the calls of startBigBang, animate, onClick and
\* onMouseMove, the phase never goes back to an earlier one, and it becomes complete
\* at most once.  Violated: startBigBang sets the phase to explosion whatever it was
C5_PhaseOnlyForward ==
    [][/\ PhaseRank(bigBangState') >= PhaseRank(bigBangState)
       /\ completions' <= 1]_vars

\* C6: 'galaxy:bigBangComplete' is emitted only by the frame that takes the phase from
\* explosion to complete, which is a frame at least 6.0 s after the start with a blend
\* fraction of 1, every such frame emits it, and it is emitted once in all.  Violated:
\* after a second startBigBang (C5) the phase becomes complete, and the notification
\* is emitted, a second time
C6_NotifiedOnceOnCompletion ==
    [][/\ published' # published =>
             /\ bigBangState = "explosion" /\ bigBangState' = "complete"
             /\ now - bigBangStartTime >= FormationStart + FormationSpan
             /\ formationProgress(now - bigBangStartTime) = One
             /\ published = 0 /\ published' = 1
       /\ bigBangState # "complete" /\ bigBangState' = "complete" =>
             published' = published + 1]_vars

BloomTimers == {t \in BagToSet(timers) : t.kind = "bloom"}

\* C26: the bloom target is 5.0 after a click, which starts a timer of 300 ms that
\* sets it back to 1.5; whatever the order of clicks and timers, the target is 1.5 or
\* 5.0, it is 5.0 only while a timer is pending, and it is 1.5 once none is.
C26_BloomSpikesAndDecays ==
    /\ [](bloomStrength \in {BloomRest, BloomPulse})
    /\ [](bloomStrength = BloomPulse => BloomTimers # {})
    /\ [](BloomTimers = {} => bloomStrength = BloomRest)
    /\ [][(\E p \in Pointers : OnClick(p[1], p[2])) =>
             /\ bloomStrength' = BloomPulse
             /\ timers' = timers (+) SetToBag({[kind |-> "bloom", due |-> now + BloomReset]})]_vars
    /\ [][BloomTimeout => bloomStrength' = BloomRest]_vars

\* two clicks whose pulses overlapped: the timer of the first has set the target
\* back while the timer of the second is pending
C26_Witness ==
    /\ bloomStrength = BloomRest
    /\ BloomTimers # {}

-----------------------------------------------------------------------------
(***************************************************************************)
(* The blend fraction: claims                                              *)
(***************************************************************************)

\* 1 - (1 - q/40)^3 multiplied out, as a number of One-ths, q in 40ths
EaseOutCubic(q) ==
    3 * q * FormationSpan * FormationSpan - 3 * q * q * FormationSpan + q * q * q

\* what the specification says the blend fraction is at elapsed time t
BlendAt(t) ==
    IF t <= FormationStart THEN 0
    ELSE EaseOutCubic(Min(t - FormationStart, FormationSpan))

\* C8: the blend fraction is 0 up to 2 s, 1 - (1 - min((t - 2)/4, 1))^3 after, it
\* never decreases as t grows, it lies between 0 and 1, and it is 1 from 6 s on
C8_BlendFraction ==
    blendOut # <<>> =>
       /\ \A i \in 1 .. 2 :
             /\ blendOut[i] = BlendAt(blendIn[i])
             /\ blendOut[i] >= 0 /\ blendOut[i] <= One
             /\ blendIn[i] >= FormationStart + FormationSpan => blendOut[i] = One
             /\ blendIn[i] <= FormationStart => blendOut[i] = 0
       /\ blendIn[1] <= blendIn[2] => blendOut[1] <= blendOut[2]

\* the fraction was computed for a time in the formation and for a later time after it
C8_Witness ==
    /\ blendOut # <<>>
    /\ blendIn[1] > FormationStart /\ blendIn[1] < FormationStart + FormationSpan
    /\ blendIn[2] > FormationStart + FormationSpan
    /\ blendOut[1] > 0 /\ blendOut[1] < blendOut[2]

-----------------------------------------------------------------------------
(***************************************************************************)
(* The palette: claims                                                     *)
(***************************************************************************)

\* the step is a call of addToPalette(color)
AddStep(color) == \E full \in BOOLEAN : AddToPalette(color, full)

\* the text stored under the palette's key, <<"absent">> when there is none
Stored(storage) == IF Has(storage, PaletteKey) THEN storage[PaletteKey] ELSE <<"absent">>

\* C9: a palette of at most 8 colours has at most 8 after addToPalette, and
\* addToPalette of a colour whose hex is not in a palette of exactly 8 drops the entry
\* at index 0, keeps the other 7 in their order, puts the new colour last, and leaves 8
C9_PaletteCap ==
    [][\A color \in Colors :
          adds' = adds + 1 /\ palette # Null /\ AddStep(color) =>
             /\ Len(palette) <= PaletteMax => Len(palette') <= PaletteMax
             /\ Len(palette) = PaletteMax /\ ~exists(palette, color) =>
                   /\ Len(palette') = PaletteMax
                   /\ palette'[PaletteMax] = color
                   /\ \A i \in 1 .. PaletteMax - 1 : palette'[i] = palette[i + 1]]_vars

\* a ninth colour was added to a palette of eight loaded from the storage
C9_Witness ==
    /\ adds = 1
    /\ palette = SubSeq(ColorSeq, 2, PaletteMax) \o <<"c9">>

\* C10 as stated: the palette is loaded from the key at startup, every addToPalette
\* that changes the palette leaves its JSON text under the key, and once loaded the
\* stored list is the palette.  Violated: a write that throws is swallowed
C10_StoredTracksPalette ==
    [][/\ appInit = "new" /\ appInit' # "new" => palette' = StorageLoadPalette(localStorage)
       /\ appInit # "new" /\ palette' # palette =>
             Stored(localStorage') = stringify(palette')
       /\ appInit' # "new" => StorageLoadPalette(localStorage') = palette']_vars

\* C10, amended: the palette is loaded from the key at startup; an addToPalette that
\* changes the palette leaves its JSON text under the key when the write succeeds,
\* and leaves the storage as it was when the write throws; once loaded, the stored
\* list is the palette unless the latest write threw
C10_StoredTracksPaletteUnlessWriteFails ==
    [][/\ appInit = "new" /\ appInit' # "new" => palette' = StorageLoadPalette(localStorage)
       /\ appInit # "new" /\ palette' # palette =>
             IF unsaved'
             THEN Stored(localStorage') = Stored(localStorage)
             ELSE Stored(localStorage') = stringify(palette')
       /\ appInit' # "new" /\ ~unsaved' => StorageLoadPalette(localStorage') = palette']_vars

\* a write threw, and a later one succeeded and brought the stored list up to date
C10_Witness ==
    /\ adds = 3
    /\ ~unsaved
    /\ palette = <<"c1", "c2", "c3", "c4">>
    /\ Stored(localStorage) = stringify(palette)

\* the text under the palette's key is the JSON text of a list of colours
StoredIsList(storage) == Has(storage, PaletteKey) /\ IsListText(storage[PaletteKey])

\* C11 (as claimed): when the key is absent or its text is anything but the JSON text
\* of a list of colours, loadPalette leaves the empty list, init() goes on, and the
\* palette is a list for every later addToPalette.  Violated: the text null is valid
\* JSON, JSON.parse returns null, and null becomes the palette
C11_CorruptLoadsEmpty ==
    [][/\ appInit = "new" /\ appInit' # "new" /\ ~StoredIsList(localStorage) =>
             palette' = <<>> /\ appInit' = "loaded"
       /\ appInit' # "new" => palette' # Null]_vars

\* C22: the glow of every particle is within [0, 1] after any updates with any
\* pointer: it starts at 0, a pointer within the influence radius raises it to the
\* larger of itself and 0.8 of the influence, and otherwise a frame takes a tenth off.
C22_GlowWithinUnit ==
    \A i \in DOMAIN particles :
       particles[i].glowIntensity >= 0 /\ particles[i].glowIntensity <= 1000

\* the pointer had made a particle glow, by 0.8 of its influence, and the latest frame took
\* a tenth off that glow
C22_Witness ==
    /\ before # <<>>
    /\ \E i \in DOMAIN particles :
          /\ before[i].glowIntensity <= 800
          /\ particles[i].glowIntensity > 0
          /\ particles[i].glowIntensity < before[i].glowIntensity
    /\ C22_GlowWithinUnit

\* C24: after dispose() of the layer none of the listeners it registered with the
\* window remains, and no later event of the window calls a method of the layer.
C24_DisposeRemovesListeners ==
    /\ [](~isAnimating => listeners = {})
    /\ [][~isAnimating => ~Resize]_vars

\* C30: until dispose(), the modal's cube is active exactly when the mode is
\* 'analyze': a click on the galaxy that reaches enterAnalyzeMode leaves the mode
\* 'analyze' and the cube active, the Escape key and the close button leave the mode
\* 'explore' and the cube hidden, and a callback of the sampling interval emits
\* 'galaxy:colorUpdate' exactly when the mode is 'explore'.
C30_CubeActiveIffAnalyze ==
    /\ [](~disposed => (colorCube.isActive <=> mode = "analyze"))
    /\ [][(\E p \in Pointers, colors \in Samples : ClickAgain(p[1], p[2], colors))
             /\ subs["galaxy:click"] # <<>> =>
                mode' = "analyze" /\ colorCube'.isActive]_vars
    /\ [][Escape \/ CloseModal => mode' = "explore" /\ ~colorCube'.isActive]_vars
    /\ [](sampling.emittedIn \subseteq {"explore"} /\ sampling.skippedIn \subseteq {"analyze"})
    /\ [][SampleGalaxyColors =>
             IF mode = "explore"
             THEN sampling'.emittedIn = {"explore"} /\ sampling'.skippedIn = sampling.skippedIn
             ELSE sampling'.emittedIn = sampling.emittedIn]_vars

\* the modal is open for the second time, after callbacks of the sampling that
\* emitted in the explore mode and that kept still in the analyze mode
C30_Witness ==
    /\ ~disposed
    /\ clicks = 2
    /\ mode = "analyze"
    /\ colorCube.isActive
    /\ sampling.emittedIn = {"explore"}
    /\ sampling.skippedIn = {"analyze"}

-----------------------------------------------------------------------------
(***************************************************************************)
(* CosmicLabApp: claims                                                    *)
(***************************************************************************)

\* the growth timers that are pending
GrowthPending == {t \in BagToSet(timers) : t.kind = "growth"}

\* C7: the controller starts the growth of the background cube only when a
\* 'galaxy:bigBangComplete' has reached it and 3000 ms have passed since; each
\* notification has one pending timer or one start, never more; and no growth starts
\* while the galaxy is in the singularity or the explosion
C7_GrowthAfterNotificationAndDelay ==
    [][/\ growthStarts' # growthStarts =>
             /\ growthStarts' = growthStarts + 1
             /\ growthStarts' <= Len(receivedAt)
             /\ now >= receivedAt[growthStarts'] + GrowthDelay
             /\ bigBangState = "complete"
             /\ cubeBackground'.isActive /\ cubeBackground'.isGrowing
             /\ cubeBackground'.growthStartTime = now
       /\ \A t \in GrowthPending' : CopiesIn(t, timers') = 1
       /\ growthStarts' + Cardinality(GrowthPending') = Len(receivedAt')]_vars

\* the growth has started, three seconds or more after the notification
C7_Witness ==
    /\ growthStarts = 1
    /\ Len(receivedAt) = 1
    /\ cubeBackground.isActive
    /\ cubeBackground.growthStartTime >= receivedAt[1] + GrowthDelay
    /\ bigBangState = "complete"

\* C16 (as claimed): once dispose() has run, dispose() was called on each of the four
\* layers initializeLayers() created and the bus has no registration.  Violated: the
\* background cube is never disposed
C16_DisposeReachesEveryLayer ==
    disposed =>
       /\ layersDisposed = Layers
       /\ \A e \in AppEvents : subs[e] = <<>>

\* C17 (as claimed): from init() on there is exactly one pending frame callback of the
\* controller, and every frame calls galaxyLayer.animate(), particleLayer.animate() and
\* the fps update in this order and leaves one callback pending.  Violated: an init()
\* that throws in loadPalette() never starts the frames
C17_OneTickChain ==
    /\ [](appInit # "new" => frameChain = 1)
    /\ [][Frame =>
             /\ lastFrame' = <<"galaxyLayer.animate", "particleLayer.animate",
                               "perfMonitor.update">>
             /\ frameChain' = 1]_vars

\* C25: dispose() does not take back the 3000 ms timer that 'galaxy:bigBangComplete'
\* started: when it runs while the timer is pending the timer stays, it can fire when
\* it is due, and when it fires it calls startColorCubeGrowth(), which shows the
\* background cube, after the disposal.
C25_GrowthTimerOutlivesDispose ==
    /\ [][Dispose => timers' = timers]_vars
    /\ [](disposed /\ (\E t \in Due : t.kind = "growth") => ENABLED GrowthTimeout)
    /\ [][GrowthTimeout /\ disposed =>
             /\ growthStarts' = growthStarts + 1
             /\ cubeBackground'.isActive
             /\ cubeBackground'.isGrowing
             /\ cubeBackground'.frames > 0]_vars

\* the application is disposed, and after that the timer has started the growth
C25_Witness ==
    /\ disposed
    /\ lateStarts = 1
    /\ growthStarts = 1
    /\ cubeBackground.isActive

(***************************************************************************)
(* ParticleLayer: claims                                                   *)
(***************************************************************************)

OnTarget(p) == p.x = p.tx /\ p.y = p.ty

\* the pointer is at least mouseInfluenceRadius away from the particle's target
TargetClear(p) == ~Near([p EXCEPT !.x = p.tx, !.y = p.ty], mouse)

\* C12 (as claimed): after the first frame that follows a setMode from sync to another
\* mode, every particle is exactly on its target, wherever the pointer is.  Violated:
\* the update of that frame pushes a particle whose target is near the pointer off it
C12_OnTargetAfterSnap ==
    tick = "snap" => \A i \in DOMAIN particles : OnTarget(particles[i])

\* C12 (corrected): a setMode from sync to another mode puts every particle exactly on
\* its new target at once, and after the next frame every particle whose target is at
\* least mouseInfluenceRadius away from the pointer is still exactly on it
C12_OnTargetAfterSnapAwayFromPointer ==
    /\ snapped => \A i \in DOMAIN particles : OnTarget(particles[i])
    /\ tick = "snap" =>
          \A i \in DOMAIN particles : TargetClear(particles[i]) => OnTarget(particles[i])

\* the first frame after leaving sync has run with the pointer on the canvas, and it
\* left every particle on a target that is not where the particle was created
C12_Witness ==
    /\ tick = "snap"
    /\ mouse \in ParticlePointers
    /\ particles # <<>>
    /\ \A i \in DOMAIN particles :
          /\ OnTarget(particles[i])
          /\ TargetClear(particles[i])
          /\ \A start \in Starts : <<particles[i].x, particles[i].y>> # start[i]

\* the square of the distance from the position to the target
Dist2(p) == (p.tx - p.x) * (p.tx - p.x) + (p.ty - p.y) * (p.ty - p.y)

\* the distance along an axis from which on a step of the easing rounds to nothing
Rest == 50 \div ease

RadiusRest == 50 \div radiusEase

\* the latest call was a frame that updated the particles
Updated == tick # "none" /\ before # <<>>

\* in the latest frame, the pointer was outside the influence radius of particle i
PointerAway(i) == ~Near(lerp(before[i]), mouse)

\* C13 (as claimed): every update of a particle with the pointer outside its influence
\* radius strictly decreases the distance to the target.  Violated: a particle on its
\* target, or so near that the step rounds to nothing, stays where it is
C13_DistanceStrictlyDecreases ==
    Updated =>
       \A i \in DOMAIN particles :
          PointerAway(i) => Dist2(particles[i]) < Dist2(before[i])

\* C13 (corrected): an update with the pointer outside the influence radius never
\* increases the distance to the target and strictly decreases it unless the step
\* (target - position) * 0.08 rounds to nothing on both axes, which it does on the
\* target; along each axis it leaves at most 0.92 of the distance, up to rounding, and
\* it leaves at most 0.85 of the difference of the radius from baseRadius, up to rounding
C13_DistanceDecreasesUntilRest ==
    Updated =>
       \A i \in DOMAIN particles :
          LET p == before[i]
              r == particles[i]
          IN PointerAway(i) =>
                /\ Dist2(r) <= Dist2(p)
                /\ Abs(p.tx - p.x) > Rest \/ Abs(p.ty - p.y) > Rest => Dist2(r) < Dist2(p)
                /\ Abs(p.tx - p.x) <= Rest /\ Abs(p.ty - p.y) <= Rest => Dist2(r) = Dist2(p)
                /\ Abs(r.tx - r.x) * 100 <= Abs(p.tx - p.x) * (100 - ease) + 50
                /\ Abs(r.ty - r.y) * 100 <= Abs(p.ty - p.y) * (100 - ease) + 50
                /\ r.tx = p.tx /\ r.ty = p.ty
                /\ r.targetRadius = r.baseRadius
                /\ Abs(r.baseRadius - r.radius) * 100
                      <= Abs(p.baseRadius - p.radius) * (100 - radiusEase) + 50
                /\ Abs(p.baseRadius - p.radius) > RadiusRest =>
                      Abs(r.baseRadius - r.radius) < Abs(p.baseRadius - p.radius)

\* a frame with the pointer on the canvas and outside the influence radius of a
\* particle brought that particle nearer to its target and its radius, which the
\* pointer had raised, nearer to baseRadius
C13_Witness ==
    /\ Updated
    /\ mouse \in ParticlePointers
    /\ \E i \in DOMAIN particles :
          /\ PointerAway(i)
          /\ Dist2(particles[i]) < Dist2(before[i])
          /\ Abs(particles[i].baseRadius - particles[i].radius)
                < Abs(before[i].baseRadius - before[i].radius)

(***************************************************************************)
(* The growth of a cube: claims                                            *)
(***************************************************************************)

\* C14: the easing of the growth gives 0 at progress 0, one half at one half and 1 at
\* 1, it never decreases as the elapsed time grows, and for every elapsed time the
\* progress and the scale the cube publishes lie in 0 .. 1
C14_EasingWithinUnitAndMonotone ==
    easeOut # <<>> =>
       /\ \A i \in 1 .. 2 :
             /\ easeOut[i].growthProgress \in 0 .. growthDuration
             /\ easeOut[i].currentScale \in 0 .. Full
             /\ easeIn[i] = 0 => easeOut[i].currentScale = 0
             /\ 2 * easeIn[i] = growthDuration => 2 * easeOut[i].currentScale = Full
             /\ easeIn[i] >= growthDuration =>
                   /\ easeOut[i].growthProgress = growthDuration
                   /\ easeOut[i].currentScale = Full
       /\ easeIn[1] <= easeIn[2] => easeOut[1].currentScale <= easeOut[2].currentScale

\* the cube was drawn in the first half of its growth and again in the second
C14_Witness ==
    /\ easeOut # <<>>
    /\ 0 < easeOut[1].currentScale /\ 2 * easeOut[1].currentScale < Full
    /\ Full < 2 * easeOut[2].currentScale /\ easeOut[2].currentScale < Full

(***************************************************************************)
(* ColorUtils: claims                                                      *)
(***************************************************************************)

\* C19: converting an RGB triple of whole channels 0 .. 255 to HSL and the result back
\* to RGB gives each channel within 1 of what it was
C19_RoundTripWithinOne ==
    colorOut # <<>> =>
       /\ Abs(colorOut[2].r - colorIn[1]) <= 1
       /\ Abs(colorOut[2].g - colorIn[2]) <= 1
       /\ Abs(colorOut[2].b - colorIn[3]) <= 1

\* a triple of three different channels, the blue one the largest, came back
C19_Witness ==
    /\ colorOut # <<>>
    /\ colorIn[1] < colorIn[2] /\ colorIn[2] < colorIn[3]
    /\ colorOut[1].s # Num(0)
    /\ colorOut[2] = [r |-> colorIn[1], g |-> colorIn[2], b |-> colorIn[3]]

(***************************************************************************)
(* ColorCube: claims                                                       *)
(***************************************************************************)

\* what a frame of a growing cube emits: one 'colorCube:growthUpdate' with the progress
\* and the scale the cube then has, and after it 'colorCube:growthComplete' when and
\* only when the progress has reached the whole
GrowingFrameEmits(cube) ==
    LET growthUpdate ==
            CubeEvent("colorCube:growthUpdate", cube.growthProgress, cube.currentScale)
    IN IF cube.growthProgress >= growthDuration
       THEN /\ cube.emitted = <<growthUpdate, Bare("colorCube:growthComplete")>>
            /\ ~cube.isGrowing
       ELSE /\ cube.emitted = <<growthUpdate>>
            /\ cube.isGrowing

\* C15: every frame of a cube that is growing emits one 'colorCube:growthUpdate' with
\* progress, scale and radius; 'colorCube:growthComplete' is emitted in the frame in
\* which the progress reaches 1, after that frame's update, at most once for a show(),
\* and no frame emits anything once the growth is over; and a growth that no hide()
\* ends does reach its 'colorCube:growthComplete'
C15_GrowthEvents ==
    /\ [](colorCube.completes <= 1)
    /\ [][CubeFrame =>
             /\ colorCube.isActive /\ colorCube.isGrowing => GrowingFrameEmits(colorCube')
             /\ ~(colorCube.isActive /\ colorCube.isGrowing) =>
                   /\ colorCube'.emitted = <<>>
                   /\ colorCube'.completes = colorCube.completes]_vars
    /\ [][colorCube'.completes > colorCube.completes => CubeFrame]_vars
    /\ (colorCube.isActive /\ colorCube.isGrowing)
          ~> (~colorCube.isActive \/ colorCube.completes = 1)

\* the frame in which a growth ended has run: it emitted the last update and then the
\* completion, on a cube that had drawn frames before
C15_Witness ==
    /\ colorCube.call = "animate"
    /\ colorCube.completes = 1
    /\ colorCube.emitted =
          <<CubeEvent("colorCube:growthUpdate", growthDuration, Full),
            Bare("colorCube:growthComplete")>>
    /\ now > colorCube.growthStartTime + growthDuration

-----------------------------------------------------------------------------
(***************************************************************************)
(* The point cloud of GalaxyLayer: claims                                  *)
(***************************************************************************)

Centre == <<0, 0, 0>>

\* C18: while the phase of the galaxy is singularity, that is before startBigBang(),
\* every point is at the centre, whatever animate(), onMouseMove() and onClick()
\* calls were made.
C18_PointsAtCentreInSingularity ==
    bigBangState = "singularity" => \A i \in DOMAIN positions : positions[i] = Centre

\* C20: the cloud is fixed after its construction: after any calls of startBigBang,
\* animate, onMouseMove and onClick (which samples the region) the number of points,
\* the place of each in the spiral, its explosion velocity and its size are those
\* createParticles gave; only the positions and the colours are written.
C20_CloudFixedAfterConstruction ==
    /\ Len(positions) = Len(CloudSeeds)
    /\ Len(pointColors) = Len(CloudSeeds)
    /\ originalPositions = [i \in DOMAIN CloudSeeds |-> CloudSeeds[i].originalPosition]
    /\ velocities = [i \in DOMAIN CloudSeeds |-> CloudSeeds[i].velocity]
    /\ sizes = [i \in DOMAIN CloudSeeds |-> CloudSeeds[i].size]

\* the galaxy is complete, every point has left the centre, a colour has changed, and
\* a click has sampled a point and pushed it off the place of its latest frame
C20_Witness ==
    /\ bigBangState = "complete"
    /\ \A i \in DOMAIN positions : positions[i] # Centre
    /\ \E i \in DOMAIN pointColors : pointColors[i] # CloudSeeds[i].color
    /\ sampled # <<>>
    /\ C20_CloudFixedAfterConstruction

\* the pointer of the frame that is being drawn is not within config.mouseInfluenceRadius
\* of point i, as the loop of the frame measures it
PointerOutOfReach(i) ==
    LET dx == positions[i][1] - galaxyMouse'[1]
        dy == positions'[i][2] + galaxyMouse'[2]
    IN dx * dx + dy * dy >= pointerRadius * pointerRadius

\* C21: in the complete phase a frame pulls the x and the z of every point that the
\* pointer does not reach back toward the point's place in the spiral, by 5% of what
\* is left of the way.
C21_PulledBackInXAndZ ==
    [][(CloudAnimate /\ bigBangState = "complete") =>
          \A i \in DOMAIN positions :
             PointerOutOfReach(i) =>
                /\ positions'[i][1] = mix(positions[i][1], originalPositions[i][1], 5, 100)
                /\ positions'[i][3] = mix(positions[i][3], originalPositions[i][3], 5, 100)]_vars

\* the part of C21 about x alone
C21_PulledBackInX ==
    [][(CloudAnimate /\ bigBangState = "complete") =>
          \A i \in DOMAIN positions :
             PointerOutOfReach(i) =>
                positions'[i][1] = mix(positions[i][1], originalPositions[i][1], 5, 100)]_vars

-----------------------------------------------------------------------------
(***************************************************************************)
(* ColorCube and its palette: claims                                       *)
(***************************************************************************)

\* show() was called without colours, and it returned having changed nothing but
\* isActive: no growth, no frame, no event
ShownNothing ==
    /\ colorCube'.call = "show"
    /\ colorCube'.emitted = <<>>
    /\ colorCube'.frames = colorCube.frames
    /\ colorCube'.isGrowing = colorCube.isGrowing
    /\ colorCube'.growthProgress = colorCube.growthProgress
    /\ colorCube'.growthStartTime = colorCube.growthStartTime

\* C23: when the fetch of the palette has failed or has not delivered, show() without
\* colours raises no error, starts no growth, asks for no frame and emits nothing.
C23_NothingToShow ==
    [][(ShowCube(0) /\ colorCube.colorsData \in {0, NoColors}) => ShownNothing]_vars

\* the same while the cube holds the empty list of its construction or of an answer
C23_NothingToShowOfEmptyList ==
    [][(ShowCube(0) /\ colorCube.colorsData = 0) => ShownNothing]_vars

\* C28 (as claimed): a cube has at most one frame callback pending, whatever the order
\* of show(), hide() and the frames.  Violated: a show() of a cube that is already
\* shown calls animate() again, which asks for a second callback while the first is
\* pending, and from then on two chains of frames run
C28_OneFrameLoop ==
    [](colorCube.frames <= 1)

\* after a hide() no callback is left pending that goes on: a cube that is not shown
\* has at most the callbacks that its hide() could not take back, and each of them
\* ends its chain
C28_HiddenCubeStops ==
    [][CubeFrame /\ ~colorCube.isActive => colorCube'.frames = colorCube.frames - 1]_vars

GrowthEvents == {"colorCube:growthUpdate", "colorCube:growthComplete"}

\* C29: hide() emits 'colorCube:hidden' once and nothing else, and from the hide() to
\* the next show() the cube emits no 'colorCube:growthUpdate' and no
\* 'colorCube:growthComplete' and keeps its growthProgress and its currentScale, also
\* in a frame whose callback was pending at the hide()
C29_HiddenCubeIsSilent ==
    /\ [][HideCube => colorCube'.emitted = <<Bare("colorCube:hidden")>>]_vars
    /\ [][~colorCube'.isActive =>
             /\ colorCube'.growthProgress = colorCube.growthProgress
             /\ colorCube'.currentScale = colorCube.currentScale
             /\ colorCube'.completes = colorCube.completes
             /\ \A i \in DOMAIN colorCube'.emitted :
                   colorCube'.emitted[i].name \notin GrowthEvents]_vars
    /\ [][CubeFrame /\ ~colorCube.isActive =>
             /\ colorCube'.emitted = <<>>
             /\ ~colorCube'.isGrowing
             /\ ~colorCube'.animationId]_vars

\* a callback that outlived the hide() of a half-grown cube has run, later than the
\* growth would have ended, and the cube is as the hide() left it
C29_Witness ==
    /\ colorCube.call = "animate"
    /\ ~colorCube.isActive
    /\ colorCube.growthProgress > 0
    /\ colorCube.growthProgress < growthDuration
    /\ now > colorCube.growthStartTime + growthDuration
    /\ colorCube.emitted = <<>>
    /\ colorCube.completes = 0

====
